---- MODULE Spec2Model ----
(***************************************************************************)
(* Model of the eVTOL violation monitor (scripts/monitor_violations_linux  *)
(* .py and its siblings): the master leaderboard merge update_master_csv,  *)
(* its callers, and the red-light monitor's per-tick state machine.        *)
(*                                                                         *)
(* A team name is a sequence of one-character strings, so that lower(),    *)
(* strip() and replace(" ", "_") are computed character by character.  A   *)
(* CSV cell holding a number is the sequence of its decimal digits, as     *)
(* str() writes it and int() reads it back.                                *)
(***************************************************************************)
EXTENDS Integers, Sequences, FiniteSets, TLC

VARIABLES
    master,      \* master_violation.csv: [exists, header, rows]
    clock,       \* datetime.now() as seen by the next merge
    calls,       \* the update_master_csv calls made so far, in order (history)
    pc,          \* per concurrent session: position inside update_master_csv
    local,       \* the locals of the function in progress (rows, arguments, totals)
    sessions,    \* per concurrent session: merges completed
    violation_logged,   \* RedLightMonitor.violation_logged
    violations,         \* RedLightMonitor.violations
    obs,         \* what the last tick polled from the simulator (history)
    hist,        \* run / dwell bookkeeping of the red-light ticks (history)
    zones,           \* CollisionMonitor.zones
    static_count,    \* CollisionMonitor.static_count
    dynamic_count,   \* CollisionMonitor.dynamic_count
    ego_loc,         \* vehicle.get_location(), as the simulator has it
    colHist,         \* the last collision events and prunes (history)
    last_turn_time,  \* LaneMonitor.last_turn_time
    lane_violations, \* LaneMonitor.violations
    time,            \* time.time()
    laneHist,        \* junction ticks and the last lane event (history)
    team_csv,        \* the team's history file: [exists, rows]
    run              \* TeamMonitor.run: position, sensors, vehicle (and history)

vars == <<master, clock, calls, pc, local, sessions,
          violation_logged, violations, obs, hist,
          zones, static_count, dynamic_count, ego_loc, colHist,
          last_turn_time, lane_violations, time, laneHist,
          team_csv, run>>

masterVars == <<master, clock, calls>>
concVars == <<pc, local, sessions>>
redVars == <<violation_logged, violations, obs, hist>>
colVars == <<zones, static_count, dynamic_count, ego_loc, colHist>>
laneVars == <<last_turn_time, lane_violations, time, laneHist>>
sessVars == <<team_csv, run>>
detVars == <<colVars, laneVars, sessVars>>

-----------------------------------------------------------------------------
(* Bounds of the model *)

MaxMerges == 3      \* merges per behaviour of the sequential leaderboard
MaxSessions == 2    \* merges per concurrent session
MaxTicks == 5       \* control-loop ticks per behaviour
MaxEvents == 3      \* collision events per behaviour
MaxTime == 6        \* seconds the clock advances per behaviour
MaxLaneEvents == 2  \* lane-invasion events per behaviour
MaxLoops == 2       \* control-loop iterations per session
MaxSessEvents == 2  \* sensor events per session

-----------------------------------------------------------------------------
(* Strings *)

Whitespace == {" ", "\t"}

LowerChar(c) ==
    CASE c = "A" -> "a"
      [] c = "B" -> "b"
      [] OTHER -> c

\* str.lower()
Lower(s) == [i \in 1..Len(s) |-> LowerChar(s[i])]

RECURSIVE LStrip(_)
LStrip(s) ==
    IF s # <<>> /\ Head(s) \in Whitespace THEN LStrip(Tail(s)) ELSE s

RECURSIVE RStrip(_)
RStrip(s) ==
    IF s # <<>> /\ s[Len(s)] \in Whitespace
    THEN RStrip(SubSeq(s, 1, Len(s) - 1))
    ELSE s

\* str.strip()
Strip(s) == RStrip(LStrip(s))

\* str.replace(" ", "_")
ReplaceSpace(s) == [i \in 1..Len(s) |-> IF s[i] = " " THEN "_" ELSE s[i]]

RECURSIVE str(_)
\* str(n) for n >= 0: the decimal digits
str(n) == IF n < 10 THEN <<n>> ELSE Append(str(n \div 10), n % 10)

RECURSIVE int(_)
\* int(s) for a digit string
int(s) == IF Len(s) = 1 THEN s[1]
          ELSE 10 * int(SubSeq(s, 1, Len(s) - 1)) + s[Len(s)]

Min(a, b) == IF a <= b THEN a ELSE b

ToSet(s) == {s[i] : i \in DOMAIN s}

-----------------------------------------------------------------------------
(* Inputs *)

\* Team names as typed or passed: two spellings of one team that differ in
\* case, two that differ in surrounding whitespace, and another team.
TeamNames ==
    { <<"a">>, <<"A">>, <<"a", " ">>, <<"\t", "a">>, <<"b">> }

\* Session totals (lane, collision, redlight)
SessionTotals == { <<3, 1, 0>>, <<1, 2, 1>>, <<0, 3, 0>> }

-----------------------------------------------------------------------------
(* update_master_csv *)

fieldnames ==
    << "team name", "date/time",
       "current_lane", "lowest_lane",
       "current_collision", "lowest_collision",
       "current_redlight", "lowest_redlight",
       "current_total", "lowest_total" >>

NoFile == [exists |-> FALSE, header |-> <<>>, rows |-> <<>>]

\* The file right after open(master_path, "w"): truncated, nothing flushed
Truncated == [exists |-> TRUE, header |-> <<>>, rows |-> <<>>]

\* The read of lines 35-40 without the test of the header
ReadRows_AnyHeader(f) ==
    IF f.exists THEN f.rows ELSE <<>>

\* lines 35-40: the rows read, or none when the file is missing or its header
\* is not the expected set of columns
ReadRows(f) ==
    IF f.exists /\ ToSet(f.header) = ToSet(fieldnames) THEN f.rows ELSE <<>>

\* line 45: the test that picks the row to update
RowMatches(row, team_name) ==
    Lower(Strip(row.team_name)) = Lower(team_name)

\* UpdatedRow with the lowest_* cells left as they were read
UpdatedRow_KeepLowest(row, lane, collision, redlight, now) ==
    LET current_total == lane + collision + redlight IN
    [row EXCEPT
        !.date_time = now,
        !.current_lane = str(lane),
        !.current_collision = str(collision),
        !.current_redlight = str(redlight),
        !.current_total = str(current_total)]

\* UpdatedRow with the lowest_* cells replaced by the new totals
UpdatedRow_Replace(row, lane, collision, redlight, now) ==
    LET current_total == lane + collision + redlight IN
    [row EXCEPT
        !.date_time = now,
        !.current_lane = str(lane),
        !.lowest_lane = str(lane),
        !.current_collision = str(collision),
        !.lowest_collision = str(collision),
        !.current_redlight = str(redlight),
        !.lowest_redlight = str(redlight),
        !.current_total = str(current_total),
        !.lowest_total = str(current_total)]

\* UpdatedRow with lowest_total derived from the per-category minimums
UpdatedRow_DerivedTotal(row, lane, collision, redlight, now) ==
    LET current_total == lane + collision + redlight
        ll == Min(int(row.lowest_lane), lane)
        lc == Min(int(row.lowest_collision), collision)
        lr == Min(int(row.lowest_redlight), redlight)
    IN
    [row EXCEPT
        !.date_time = now,
        !.current_lane = str(lane),
        !.lowest_lane = str(ll),
        !.current_collision = str(collision),
        !.lowest_collision = str(lc),
        !.current_redlight = str(redlight),
        !.lowest_redlight = str(lr),
        !.current_total = str(current_total),
        !.lowest_total = str(ll + lc + lr)]

\* The update that leaves current_total and lowest_total as the row had
\* them
UpdatedRow_StaleTotal(row, lane, collision, redlight, now) ==
    [row EXCEPT
        !.date_time = now,
        !.current_lane = str(lane),
        !.lowest_lane = str(Min(int(row.lowest_lane), lane)),
        !.current_collision = str(collision),
        !.lowest_collision = str(Min(int(row.lowest_collision), collision)),
        !.current_redlight = str(redlight),
        !.lowest_redlight = str(Min(int(row.lowest_redlight), redlight))]

\* lines 47-57: the matched row, updated
UpdatedRow(row, lane, collision, redlight, now) ==
    LET current_total == lane + collision + redlight IN
    [row EXCEPT
        !.date_time = now,
        !.current_lane = str(lane),
        !.lowest_lane = str(Min(int(row.lowest_lane), lane)),
        !.current_collision = str(collision),
        !.lowest_collision = str(Min(int(row.lowest_collision), collision)),
        !.current_redlight = str(redlight),
        !.lowest_redlight = str(Min(int(row.lowest_redlight), redlight)),
        !.current_total = str(current_total),
        !.lowest_total = str(Min(int(row.lowest_total), current_total))]

\* NewRow with the lowest_* cells started at zero
NewRow_LowestZero(team_name, lane, collision, redlight, now) ==
    LET current_total == lane + collision + redlight IN
    [team_name |-> team_name,
     date_time |-> now,
     current_lane |-> str(lane),
     lowest_lane |-> str(0),
     current_collision |-> str(collision),
     lowest_collision |-> str(0),
     current_redlight |-> str(redlight),
     lowest_redlight |-> str(0),
     current_total |-> str(current_total),
     lowest_total |-> str(0)]

\* lines 61-72: the row appended for a team not found
NewRow(team_name, lane, collision, redlight, now) ==
    LET current_total == lane + collision + redlight IN
    [team_name |-> team_name,
     date_time |-> now,
     current_lane |-> str(lane),
     lowest_lane |-> str(lane),
     current_collision |-> str(collision),
     lowest_collision |-> str(collision),
     current_redlight |-> str(redlight),
     lowest_redlight |-> str(redlight),
     current_total |-> str(current_total),
     lowest_total |-> str(current_total)]

\* The merge with every row read stamped with the time of the merge
MergeRows_Stamp(rows, team_name, lane, collision, redlight, now) ==
    LET hits == {i \in 1..Len(rows) : RowMatches(rows[i], team_name)}
        stamped == [i \in 1..Len(rows) |-> [rows[i] EXCEPT !.date_time = now]]
    IN
    IF hits # {}
    THEN LET i == CHOOSE j \in hits : \A k \in hits : j <= k
         IN [stamped EXCEPT ![i] = UpdatedRow(rows[i], lane, collision, redlight, now)]
    ELSE Append(stamped, NewRow(team_name, lane, collision, redlight, now))

\* lines 42-72: update the first matching row (break), else append
MergeRows(rows, team_name, lane, collision, redlight, now) ==
    LET hits == {i \in 1..Len(rows) : RowMatches(rows[i], team_name)} IN
    IF hits # {}
    THEN LET i == CHOOSE j \in hits : \A k \in hits : j <= k
         IN [rows EXCEPT ![i] = UpdatedRow(rows[i], lane, collision, redlight, now)]
    ELSE Append(rows, NewRow(team_name, lane, collision, redlight, now))

\* lines 74-77: the whole file rewritten under the expected header
WriteFile(rows) == [exists |-> TRUE, header |-> fieldnames, rows |-> rows]

\* lines 23-77, run without interruption
update_master_csv(f, team_name, lane, collision, redlight, now) ==
    WriteFile(MergeRows(ReadRows(f), team_name, lane, collision, redlight, now))

\* TeamMonitor.__init__: the name a session merges under
TeamKey(team_name) == ReplaceSpace(Lower(team_name))

\* main(): the name read from the operator, stripped; empty names are refused
MainName(typed) == Strip(typed)

-----------------------------------------------------------------------------
(* The leaderboard, one merge at a time *)

Call(team_name, t) ==
    [team_name |-> team_name, lane |-> t[1], collision |-> t[2], redlight |-> t[3]]

Merge(team_name, t) ==
    /\ clock < MaxMerges
    /\ master' = update_master_csv(master, team_name, t[1], t[2], t[3], clock)
    /\ clock' = clock + 1
    /\ calls' = Append(calls, Call(team_name, t))
    /\ UNCHANGED <<concVars, redVars, detVars>>

\* update_master_csv called with a name as given
DirectMerge ==
    \E n \in TeamNames, t \in SessionTotals : Merge(n, t)

\* TeamMonitor(client, n) ... cleanup(): line 286
SessionMerge ==
    \E n \in TeamNames, t \in SessionTotals : Merge(TeamKey(n), t)

\* main(): lines 295-302
MainMerge ==
    \E n \in TeamNames, t \in SessionTotals :
        /\ MainName(n) # <<>>
        /\ Merge(TeamKey(MainName(n)), t)

InitMaster ==
    /\ master = NoFile
    /\ clock = 0
    /\ calls = <<>>

InitConcIdle ==
    /\ pc = <<>>
    /\ local = <<>>
    /\ sessions = <<>>

InitRedIdle ==
    /\ violation_logged = FALSE
    /\ violations = <<>>
    /\ obs = <<>>
    /\ hist = <<>>

InitColIdle ==
    /\ zones = <<>>
    /\ static_count = 0
    /\ dynamic_count = 0
    /\ ego_loc = <<>>
    /\ colHist = <<>>

InitLaneIdle ==
    /\ last_turn_time = 0
    /\ lane_violations = <<>>
    /\ time = 0
    /\ laneHist = <<>>

InitSessIdle ==
    /\ team_csv = <<>>
    /\ run = <<>>

InitLeaderboard ==
    InitMaster /\ InitConcIdle /\ InitRedIdle
    /\ InitColIdle /\ InitLaneIdle /\ InitSessIdle

NextLeaderboard == DirectMerge \/ SessionMerge \/ MainMerge

SpecLeaderboard == InitLeaderboard /\ [][NextLeaderboard]_vars

-----------------------------------------------------------------------------
(* The leaderboard under two sessions that end at about the same time.     *)
(* update_master_csv takes no lock: between its read (lines 36-40) and its *)
(* open(master_path, "w") (line 74), and between that open, which          *)
(* truncates the file, and the close that flushes the rows (line 77),      *)
(* another process may read or write the file.  The model lets the last    *)
(* close decide the whole content.                                         *)

Procs == {1, 2}

\* The names the two TeamMonitors merge under: two different teams
ProcTeam == << TeamKey(<<"A">>), TeamKey(<<"b">>) >>

\* lines 23-72 in session p: read the table, merge into the local rows
ReadAndMerge(p) ==
    /\ pc[p] = "idle"
    /\ sessions[p] < MaxSessions
    /\ \E t \in SessionTotals :
          /\ local' = [local EXCEPT ![p] =
                 [rows |-> MergeRows(ReadRows(master), ProcTeam[p],
                                     t[1], t[2], t[3], clock),
                  merged |-> Append(local[p].merged, Call(ProcTeam[p], t))]]
          /\ calls' = Append(calls, Call(ProcTeam[p], t))
    /\ pc' = [pc EXCEPT ![p] = "merged"]
    /\ clock' = clock + 1
    /\ UNCHANGED <<master, sessions, redVars, detVars>>

\* line 74 in session p: open(master_path, "w") truncates the file
OpenForWrite(p) ==
    /\ pc[p] = "merged"
    /\ master' = Truncated
    /\ pc' = [pc EXCEPT ![p] = "opened"]
    /\ UNCHANGED <<clock, calls, local, sessions, redVars, detVars>>

\* lines 75-77 in session p: header and rows written, file closed
WriteAndClose(p) ==
    /\ pc[p] = "opened"
    /\ master' = WriteFile(local[p].rows)
    /\ pc' = [pc EXCEPT ![p] = "idle"]
    /\ sessions' = [sessions EXCEPT ![p] = @ + 1]
    /\ UNCHANGED <<clock, calls, local, redVars, detVars>>

InitConcurrent ==
    /\ InitMaster
    /\ pc = [p \in Procs |-> "idle"]
    /\ local = [p \in Procs |-> [rows |-> <<>>, merged |-> <<>>]]
    /\ sessions = [p \in Procs |-> 0]
    /\ InitRedIdle
    /\ InitColIdle /\ InitLaneIdle /\ InitSessIdle

NextConcurrent ==
    \E p \in Procs : ReadAndMerge(p) \/ OpenForWrite(p) \/ WriteAndClose(p)

SpecConcurrent == InitConcurrent /\ [][NextConcurrent]_vars

-----------------------------------------------------------------------------
(* RedLightMonitor *)

\* Lengths are in metres, velocities in tenths of a metre per second.
Abs(x) == IF x < 0 THEN -x ELSE x

Sub(a, b) == <<a[1] - b[1], a[2] - b[2], a[3] - b[3]>>

\* The traffic lights of the map: tl1 has a stop waypoint at the origin
\* facing +x, tl2 has none; both have a trigger volume, tl1's around and
\* before its stop line, tl2's past the origin.
TrafficLights == {"tl1", "tl2"}

get_stop_waypoints(tl) ==
    IF tl = "tl1"
    THEN << [location |-> <<0, 0, 0>>, forward |-> <<1, 0, 0>>] >>
    ELSE << >>

\* tl.get_transform().transform(trg.location) and trg.extent
trigger_volume(tl) ==
    IF tl = "tl1"
    THEN [world_loc |-> <<-1, 0, 0>>, extent |-> <<3, 1, 1>>]
    ELSE [world_loc |-> <<5, 0, 0>>, extent |-> <<3, 1, 1>>]

\* (None, None)
NoStopData == [location |-> <<>>, forward |-> <<>>]

\* get_stop_data: the first stop waypoint, if any
get_stop_data(tl) ==
    IF get_stop_waypoints(tl) # <<>> THEN get_stop_waypoints(tl)[1] ELSE NoStopData

is_inside_trigger_box(tl, veh_loc) ==
    LET trg == trigger_volume(tl) IN
    /\ Abs(trg.world_loc[1] - veh_loc[1]) <= trg.extent[1]
    /\ Abs(trg.world_loc[2] - veh_loc[2]) <= trg.extent[2]
    /\ Abs(trg.world_loc[3] - veh_loc[3]) <= trg.extent[3]

\* get_speed() > 1.0 with the stop line test disregarding the speed
SpeedOver1_Always(v) == TRUE

\* get_speed() > 1.0: sqrt(v.x^2 + v.y^2 + v.z^2) > 1.0, in tenths
SpeedOver1(v) == v[1] * v[1] + v[2] * v[2] + v[3] * v[3] > 10 * 10

\* The detection with the trigger volume tried whenever the stop line test
\* finds no violation
DetectViolation_Fallthrough(o) ==
    LET stop == get_stop_data(o.tl)
        rel == Sub(o.veh_loc, stop.location)
        dot == rel[1] * stop.forward[1] + rel[2] * stop.forward[2]
                 + rel[3] * stop.forward[3]
    IN IF stop.location # <<>> /\ dot > 0 /\ SpeedOver1(o.velocity)
       THEN "StopWaypointPassed"
       ELSE IF is_inside_trigger_box(o.tl, o.veh_loc) /\ SpeedOver1(o.velocity)
       THEN "TriggerVolume" ELSE "None"

\* lines 193-202: the violation this tick sees under a red light
DetectViolation(o) ==
    LET stop == get_stop_data(o.tl) IN
    IF stop.location # <<>>
    THEN LET rel == Sub(o.veh_loc, stop.location)
             dot == rel[1] * stop.forward[1] + rel[2] * stop.forward[2]
                      + rel[3] * stop.forward[3]
         IN IF dot > 0 /\ SpeedOver1(o.velocity)
            THEN "StopWaypointPassed" ELSE "None"
    ELSE IF is_inside_trigger_box(o.tl, o.veh_loc) /\ SpeedOver1(o.velocity)
         THEN "TriggerVolume" ELSE "None"

\* line 204 with the logged flag disregarded
ShouldCount_EveryTick(violation, logged) == violation # "None"

\* line 204: if violation and not self.violation_logged
ShouldCount(violation, logged) == violation # "None" /\ ~logged

\* tick with the flag left alone when no red light influences the vehicle
tick_KeepLogged(logged, counts, o) ==
    IF o.tl = "None" \/ o.state # "Red"
    THEN [violation_logged |-> logged, violations |-> counts]
    ELSE LET violation == DetectViolation(o) IN
         IF ShouldCount(violation, logged)
         THEN [violation_logged |-> TRUE,
               violations |-> [counts EXCEPT ![violation] = @ + 1]]
         ELSE IF violation = "None"
         THEN [violation_logged |-> FALSE, violations |-> counts]
         ELSE [violation_logged |-> logged, violations |-> counts]

\* tick that leaves the flag alone on a red tick without violation
tick_NoRearm(logged, counts, o) ==
    IF o.tl = "None" \/ o.state # "Red"
    THEN [violation_logged |-> FALSE, violations |-> counts]
    ELSE LET violation == DetectViolation(o) IN
         IF ShouldCount(violation, logged)
         THEN [violation_logged |-> TRUE,
               violations |-> [counts EXCEPT ![violation] = @ + 1]]
         ELSE [violation_logged |-> logged, violations |-> counts]

\* tick that starts the counts again whenever the light is not red
tick_ResetOnGreen(logged, counts, o) ==
    IF o.tl = "None" \/ o.state # "Red"
    THEN [violation_logged |-> FALSE,
          violations |-> [t \in DOMAIN counts |-> 0]]
    ELSE LET violation == DetectViolation(o) IN
         IF ShouldCount(violation, logged)
         THEN [violation_logged |-> TRUE,
               violations |-> [counts EXCEPT ![violation] = @ + 1]]
         ELSE IF violation = "None"
         THEN [violation_logged |-> FALSE, violations |-> counts]
         ELSE [violation_logged |-> logged, violations |-> counts]

\* lines 183-209: the monitor's fields after a tick that polled o
tick(logged, counts, o) ==
    IF o.tl = "None" \/ o.state # "Red"
    THEN [violation_logged |-> FALSE, violations |-> counts]
    ELSE LET violation == DetectViolation(o) IN
         IF ShouldCount(violation, logged)
         THEN [violation_logged |-> TRUE,
               violations |-> [counts EXCEPT ![violation] = @ + 1]]
         ELSE IF violation = "None"
         THEN [violation_logged |-> FALSE, violations |-> counts]
         ELSE [violation_logged |-> logged, violations |-> counts]

\* What a tick may poll.  Vehicle locations: before the stop line, on it,
\* past it (and on the face of the trigger box), above the trigger box.
\* Velocities: at rest, at exactly 1.0 m/s, faster.
VehLocs == { <<-1, 0, 0>>, <<0, 0, 0>>, <<2, 0, 0>>, <<5, 0, 2>> }

Velocities == { <<0, 0, 0>>, <<6, 8, 0>>, <<10, 5, 0>> }

AtRest == <<0, 0, 0>>

Observations ==
    { [tl |-> "None", state |-> "None", veh_loc |-> <<0, 0, 0>>, velocity |-> AtRest] }
    \cup [tl : TrafficLights, state : {"Green", "Yellow"},
          veh_loc : {<<0, 0, 0>>}, velocity : {AtRest}]
    \cup [tl : TrafficLights, state : {"Red"},
          veh_loc : VehLocs, velocity : Velocities]

Total(counts) == counts["StopWaypointPassed"] + counts["TriggerVolume"]

\* The violation condition of a tick, as the design states it, on this map:
\* a red light, a speed above 1.0 m/s, and the vehicle past the stop line
\* (tl1: the line x = 0 facing +x) or, for a light without stop waypoint
\* (tl2), inside the trigger box 2 <= x <= 8, |y| <= 1, |z| <= 1.
ViolationCondition(o) ==
    /\ o.tl # "None"
    /\ o.state = "Red"
    /\ o.velocity[1] * o.velocity[1] + o.velocity[2] * o.velocity[2]
         + o.velocity[3] * o.velocity[3] > 100
    /\ IF o.tl = "tl1"
       THEN o.veh_loc[1] > 0
       ELSE /\ 2 <= o.veh_loc[1] /\ o.veh_loc[1] <= 8
            /\ -1 <= o.veh_loc[2] /\ o.veh_loc[2] <= 1
            /\ -1 <= o.veh_loc[3] /\ o.veh_loc[3] <= 1

\* The vehicle is at rest past tl1's stop line while tl1 is red
StationaryPastLine(o) ==
    o.tl = "tl1" /\ o.state = "Red" /\ o.veh_loc[1] > 0 /\ o.velocity = AtRest

\* The bookkeeping of runs and dwells after a tick that polled o and
\* counted n violations, given the previous observation
NextHist(h, prev, o, n) ==
    LET cond == ViolationCondition(o)
        red == o.tl # "None" /\ o.state = "Red"
        sameDwell == red /\ prev.tl = o.tl /\ prev.state = "Red" /\ h.ticks > 0
        still == StationaryPastLine(o)
    IN [ticks |-> h.ticks + 1,
        runLen |-> IF cond THEN h.runLen + 1 ELSE 0,
        runIncr |-> IF cond THEN (IF h.runLen > 0 THEN h.runIncr ELSE 0) + n ELSE 0,
        dwellLen |-> IF red THEN (IF sameDwell THEN h.dwellLen ELSE 0) + 1 ELSE 0,
        dwellIncr |-> IF red THEN (IF sameDwell THEN h.dwellIncr ELSE 0) + n ELSE 0,
        dwellRuns |-> IF red
                      THEN (IF sameDwell THEN h.dwellRuns ELSE 0)
                           + (IF cond /\ ~(sameDwell /\ h.runLen > 0) THEN 1 ELSE 0)
                      ELSE 0,
        stillLen |-> IF still THEN h.stillLen + 1 ELSE 0,
        stillIncr |-> IF still THEN (IF h.stillLen > 0 THEN h.stillIncr ELSE 0) + n ELSE 0,
        afterReset |-> h.ticks > 0 /\ (prev.tl = "None" \/ prev.state # "Red"),
        counted |-> n]

\* One pass of the control loop through self.redlight.tick() (line 259)
Tick ==
    /\ hist.ticks < MaxTicks
    /\ \E o \in Observations :
          LET after == tick(violation_logged, violations, o) IN
          /\ violation_logged' = after.violation_logged
          /\ violations' = after.violations
          /\ obs' = o
          /\ hist' = NextHist(hist, obs, o, Total(after.violations) - Total(violations))
    /\ UNCHANGED <<masterVars, concVars, detVars>>

InitRedLight ==
    /\ violation_logged = FALSE
    /\ violations = [t \in {"StopWaypointPassed", "TriggerVolume"} |-> 0]
    /\ obs = [tl |-> "None", state |-> "None", veh_loc |-> <<0, 0, 0>>, velocity |-> AtRest]
    /\ hist = [ticks |-> 0, runLen |-> 0, runIncr |-> 0,
               dwellLen |-> 0, dwellIncr |-> 0, dwellRuns |-> 0,
               stillLen |-> 0, stillIncr |-> 0,
               afterReset |-> FALSE, counted |-> 0]
    /\ InitMaster
    /\ InitConcIdle
    /\ InitColIdle /\ InitLaneIdle /\ InitSessIdle

NextRedLight == Tick

SpecRedLight == InitRedLight /\ [][NextRedLight]_vars

-----------------------------------------------------------------------------
(* The standalone red-light script (traffic_signal_violation.py) next to    *)
(* RedLightMonitor: both poll the same vehicle at every pass.  The script's *)
(* state is its flag violation_logged and the rows it has appended to       *)
(* violations.csv, of which the model keeps the ViolationType column.       *)

\* traffic_signal_violation.py, lines 84-110: violation_type after the
\* detection, "None" when violation_detected is False
violation_type(o) ==
    IF o.state = "Red"
    THEN LET stop == get_stop_data(o.tl) IN
         IF stop.location # NoStopData.location
         THEN LET rel == Sub(o.veh_loc, stop.location)
                  dot == rel[1] * stop.forward[1] + rel[2] * stop.forward[2]
                           + rel[3] * stop.forward[3]
              IN IF dot > 0 /\ SpeedOver1(o.velocity)
                 THEN "StopWaypointPassed" ELSE "None"
         ELSE IF is_inside_trigger_box(o.tl, o.veh_loc) /\ SpeedOver1(o.velocity)
              THEN "TriggerVolume" ELSE "None"
    ELSE "None"

\* The pass of the loop without its else branch for "no traffic light"
main_loop_KeepWithoutLight(logged, rows, o) ==
    IF o.tl # "None"
    THEN LET vt == violation_type(o) IN
         IF vt # "None" /\ ~logged
         THEN [violation_logged |-> TRUE, rows |-> Append(rows, vt)]
         ELSE IF vt = "None"
         THEN [violation_logged |-> FALSE, rows |-> rows]
         ELSE [violation_logged |-> logged, rows |-> rows]
    ELSE [violation_logged |-> logged, rows |-> rows]

\* traffic_signal_violation.py, lines 72-141: one pass of the loop that
\* polled o
main_loop(logged, rows, o) ==
    IF o.tl # "None"
    THEN LET vt == violation_type(o) IN
         IF vt # "None" /\ ~logged
         THEN [violation_logged |-> TRUE, rows |-> Append(rows, vt)]
         ELSE IF vt = "None"
         THEN [violation_logged |-> FALSE, rows |-> rows]
         ELSE [violation_logged |-> logged, rows |-> rows]
    ELSE [violation_logged |-> FALSE, rows |-> rows]

\* One pass of each loop on the same poll of the simulator
PairTick ==
    /\ hist.ticks < MaxTicks
    /\ \E o \in Observations :
          LET after == tick(violation_logged, violations, o)
              alone == main_loop(local.violation_logged, local.rows, o)
          IN
          /\ violation_logged' = after.violation_logged
          /\ violations' = after.violations
          /\ local' = alone
          /\ obs' = o
    /\ hist' = [ticks |-> hist.ticks + 1]
    /\ UNCHANGED <<masterVars, pc, sessions, detVars>>

\* line 69 of the script and lines 159-160 of the monitor
InitPair ==
    /\ violation_logged = FALSE
    /\ violations = [t \in {"StopWaypointPassed", "TriggerVolume"} |-> 0]
    /\ local = [violation_logged |-> FALSE, rows |-> <<>>]
    /\ obs = [tl |-> "None", state |-> "None", veh_loc |-> <<0, 0, 0>>, velocity |-> AtRest]
    /\ hist = [ticks |-> 0]
    /\ pc = <<>>
    /\ sessions = <<>>
    /\ InitMaster
    /\ InitColIdle /\ InitLaneIdle /\ InitSessIdle

NextPair == PairTick

SpecPair == InitPair /\ [][NextPair]_vars

-----------------------------------------------------------------------------
(* CollisionMonitor *)

ZONE_RADIUS == 2

\* The test with <= in place of <
WithinZone_Closed(a, b) ==
    (a[1] - b[1]) * (a[1] - b[1]) + (a[2] - b[2]) * (a[2] - b[2])
        <= ZONE_RADIUS * ZONE_RADIUS

\* The test on the distance in three dimensions
WithinZone_3D(a, b) ==
    (a[1] - b[1]) * (a[1] - b[1]) + (a[2] - b[2]) * (a[2] - b[2])
        + (a[3] - b[3]) * (a[3] - b[3]) < ZONE_RADIUS * ZONE_RADIUS

\* math.hypot(a.x - b.x, a.y - b.y) < ZONE_RADIUS, compared as squares;
\* z is not read
WithinZone(a, b) ==
    (a[1] - b[1]) * (a[1] - b[1]) + (a[2] - b[2]) * (a[2] - b[2])
        < ZONE_RADIUS * ZONE_RADIUS

\* _cleanup_zones that drops nothing
cleanup_zones_KeepAll(zs, current_loc) == zs

\* _cleanup_zones (lines 108-109): the zones kept
cleanup_zones(zs, current_loc) ==
    SelectSeq(zs, LAMBDA z : WithinZone(current_loc, z))

\* line 97: any(... < ZONE_RADIUS for z in self.zones)
InExistingZone(zs, loc) == \E i \in 1..Len(zs) : WithinZone(loc, zs[i])

\* line 100: "vehicle" in other.type_id, a type id being its dotted parts
IsVehicle(type_id) == "vehicle" \in ToSet(type_id)

\* _on_collision that counts but records no zone
on_collision_NoZone(zs, static, dynamic, loc, other) ==
    LET kept == cleanup_zones(zs, loc) IN
    IF InExistingZone(kept, loc)
    THEN [zones |-> kept, static_count |-> static, dynamic_count |-> dynamic]
    ELSE IF IsVehicle(other)
    THEN [zones |-> kept, static_count |-> static, dynamic_count |-> dynamic + 1]
    ELSE [zones |-> kept, static_count |-> static + 1, dynamic_count |-> dynamic]

\* _on_collision that records the location of an absorbed event as well
on_collision_ZoneAlways(zs, static, dynamic, loc, other) ==
    LET kept == cleanup_zones(zs, loc) IN
    IF InExistingZone(kept, loc)
    THEN [zones |-> Append(kept, loc),
          static_count |-> static, dynamic_count |-> dynamic]
    ELSE IF IsVehicle(other)
    THEN [zones |-> Append(kept, loc),
          static_count |-> static, dynamic_count |-> dynamic + 1]
    ELSE [zones |-> Append(kept, loc),
          static_count |-> static + 1, dynamic_count |-> dynamic]

\* _on_collision (lines 94-106): the monitor's fields after the callback
on_collision(zs, static, dynamic, loc, other) ==
    LET kept == cleanup_zones(zs, loc) IN
    IF InExistingZone(kept, loc)
    THEN [zones |-> kept, static_count |-> static, dynamic_count |-> dynamic]
    ELSE IF IsVehicle(other)
    THEN [zones |-> Append(kept, loc),
          static_count |-> static, dynamic_count |-> dynamic + 1]
    ELSE [zones |-> Append(kept, loc),
          static_count |-> static + 1, dynamic_count |-> dynamic]

\* Where the vehicle may be: points 1 m apart on a line, one off the line,
\* and one above the first.
CollisionLocs ==
    { <<0, 0, 0>>, <<1, 0, 0>>, <<2, 0, 0>>, <<3, 0, 0>>, <<2, 1, 0>>, <<0, 0, 4>> }

\* other_actor.type_id of what the vehicle may hit
ActorTypes ==
    { <<"vehicle", "tesla", "model3">>,
      <<"walker", "pedestrian", "0001">>,
      <<"static", "prop", "streetbarrier">> }

Collisions == static_count + dynamic_count

\* The 2-D distance of a and b is less than / more than ZONE_RADIUS (2 m)
Nearer(a, b) ==
    (a[1] - b[1]) * (a[1] - b[1]) + (a[2] - b[2]) * (a[2] - b[2]) < 4

Farther(a, b) ==
    (a[1] - b[1]) * (a[1] - b[1]) + (a[2] - b[2]) * (a[2] - b[2]) > 4

NoEvent == [loc |-> <<>>, before |-> 0]

\* The simulator moves the vehicle
MoveVehicle ==
    /\ \E l \in CollisionLocs : l # ego_loc /\ ego_loc' = l
    /\ UNCHANGED <<zones, static_count, dynamic_count, colHist>>
    /\ UNCHANGED <<masterVars, concVars, redVars, laneVars, sessVars>>

\* The collision sensor delivers an event: self._on_collision(event)
OnCollision ==
    /\ colHist.events < MaxEvents
    /\ \E other \in ActorTypes :
          LET after == on_collision(zones, static_count, dynamic_count, ego_loc, other)
              counted == after.static_count + after.dynamic_count > Collisions
          IN
          /\ zones' = after.zones
          /\ static_count' = after.static_count
          /\ dynamic_count' = after.dynamic_count
          /\ colHist' =
                [events |-> colHist.events + 1,
                 e1 |-> colHist.e2,
                 e2 |-> [loc |-> ego_loc, before |-> Collisions],
                 pruneBetween |-> colHist.prunedSince,
                 prunedSince |-> FALSE,
                 armLoc |-> IF counted THEN ego_loc ELSE <<>>,
                 armStage |-> IF counted THEN 1 ELSE 0,
                 lastReturn |-> colHist.armStage = 2 /\ colHist.armLoc = ego_loc,
                 lastCounted |-> counted,
                 lastOther |-> other]
    /\ UNCHANGED ego_loc
    /\ UNCHANGED <<masterVars, concVars, redVars, laneVars, sessVars>>

\* The control loop prunes: self.collision._cleanup_zones(get_location())
\* (line 260)
PruneTick ==
    /\ zones' = cleanup_zones(zones, ego_loc)
    /\ colHist' =
          [colHist EXCEPT
             !.prunedSince = TRUE,
             !.armStage = IF colHist.armStage >= 1 /\ Farther(ego_loc, colHist.armLoc)
                          THEN 2 ELSE @]
    /\ UNCHANGED <<static_count, dynamic_count, ego_loc>>
    /\ UNCHANGED <<masterVars, concVars, redVars, laneVars, sessVars>>

InitCollision ==
    /\ zones = <<>>
    /\ static_count = 0
    /\ dynamic_count = 0
    /\ ego_loc \in CollisionLocs
    /\ colHist = [events |-> 0, e1 |-> NoEvent, e2 |-> NoEvent,
                  pruneBetween |-> FALSE, prunedSince |-> FALSE,
                  armLoc |-> <<>>, armStage |-> 0,
                  lastReturn |-> FALSE, lastCounted |-> FALSE,
                  lastOther |-> <<>>]
    /\ InitMaster /\ InitConcIdle /\ InitRedIdle
    /\ InitLaneIdle /\ InitSessIdle

NextCollision == MoveVehicle \/ OnCollision \/ PruneTick

SpecCollision == InitCollision /\ [][NextCollision]_vars

-----------------------------------------------------------------------------
(* CollisionMonitor with its two threads: the sensor's callback thread in
   _on_collision and the control loop in _cleanup_zones.  No lock is taken
   in either; each step below is one read or one write of the monitor's
   fields. *)

\* Where the vehicle may be: one metre apart, so always nearer than
\* ZONE_RADIUS to every zone that can be on record
RaceLocs == { <<0, 0, 0>>, <<1, 0, 0>> }

raceRest == <<masterVars, sessions, redVars, laneVars, sessVars>>

\* The simulator moves the vehicle
RaceMove ==
    /\ \E l \in RaceLocs : l # ego_loc /\ ego_loc' = l
    /\ UNCHANGED <<zones, static_count, dynamic_count, colHist, pc, local, raceRest>>

\* Control loop, line 260 / 109: get_location() and the list comprehension
\* over self.zones are evaluated
PruneRead ==
    /\ pc.loop = "idle"
    /\ local' = [local EXCEPT !.loop = cleanup_zones(zones, ego_loc)]
    /\ pc' = [pc EXCEPT !.loop = "assign"]
    /\ UNCHANGED <<zones, static_count, dynamic_count, ego_loc, colHist, raceRest>>

\* Control loop, line 109: self.zones = <the list built>
PruneAssign ==
    /\ pc.loop = "assign"
    /\ zones' = local.loop
    /\ pc' = [pc EXCEPT !.loop = "idle"]
    /\ UNCHANGED <<local, static_count, dynamic_count, ego_loc, colHist, raceRest>>

\* Callback, lines 94-96 / 109: an event is delivered; get_location() and
\* the list comprehension of the callback's own prune are evaluated
CallbackRead ==
    /\ pc.callback = "idle"
    /\ colHist.events < MaxEvents
    /\ \E other \in ActorTypes :
          local' = [local EXCEPT !.callback =
                       [loc |-> ego_loc, other |-> other,
                        kept |-> cleanup_zones(zones, ego_loc)]]
    /\ pc' = [pc EXCEPT !.callback = "assign"]
    /\ colHist' = [colHist EXCEPT !.events = @ + 1]
    /\ UNCHANGED <<zones, static_count, dynamic_count, ego_loc, raceRest>>

\* Callback, line 109: self.zones = <the list built>
CallbackAssign ==
    /\ pc.callback = "assign"
    /\ zones' = local.callback.kept
    /\ pc' = [pc EXCEPT !.callback = "check"]
    /\ UNCHANGED <<local, static_count, dynamic_count, ego_loc, colHist, raceRest>>

\* Callback, lines 97-98: return if the location is inside a zone
CallbackCheck ==
    /\ pc.callback = "check"
    /\ pc' = [pc EXCEPT !.callback =
                 IF InExistingZone(zones, local.callback.loc) THEN "idle" ELSE "count"]
    /\ UNCHANGED <<local, zones, static_count, dynamic_count, ego_loc, colHist, raceRest>>

\* Callback, lines 99-105: one of the counts rises
CallbackCount ==
    /\ pc.callback = "count"
    /\ IF IsVehicle(local.callback.other)
       THEN dynamic_count' = dynamic_count + 1 /\ static_count' = static_count
       ELSE static_count' = static_count + 1 /\ dynamic_count' = dynamic_count
    /\ pc' = [pc EXCEPT !.callback = "append"]
    /\ UNCHANGED <<local, zones, ego_loc, colHist, raceRest>>

\* Callback, line 106: self.zones.append(loc)
CallbackAppend ==
    /\ pc.callback = "append"
    /\ zones' = Append(zones, local.callback.loc)
    /\ pc' = [pc EXCEPT !.callback = "idle"]
    /\ UNCHANGED <<local, static_count, dynamic_count, ego_loc, colHist, raceRest>>

InitZoneRace ==
    /\ zones = <<>>
    /\ static_count = 0
    /\ dynamic_count = 0
    /\ ego_loc \in RaceLocs
    /\ colHist = [events |-> 0]
    /\ pc = [callback |-> "idle", loop |-> "idle"]
    /\ local = [callback |-> <<>>, loop |-> <<>>]
    /\ sessions = <<>>
    /\ InitMaster /\ InitRedIdle /\ InitLaneIdle /\ InitSessIdle

NextZoneRace ==
    \/ RaceMove
    \/ PruneRead
    \/ PruneAssign
    \/ CallbackRead
    \/ CallbackAssign
    \/ CallbackCheck
    \/ CallbackCount
    \/ CallbackAppend

SpecZoneRace == InitZoneRace /\ [][NextZoneRace]_vars

-----------------------------------------------------------------------------
(* LaneMonitor *)

\* line 133: the length in seconds of the suppression window
SuppressWindow == 5

\* time.time() when the monitor is built: later than one window after the
\* epoch, as every wall clock is
StartTime == 2 * SuppressWindow

LaneCounters ==
    { "illegal_double_solid_cross", "illegal_solid_cross", "unjustified_dashed_cross" }

\* _on_lane_violation with one `if` per marking type instead of the elif chain
on_lane_violation_CountAll(ltt, counts, now, markings) ==
    IF now - ltt < SuppressWindow
    THEN counts
    ELSE [c \in LaneCounters |->
            counts[c]
            + (IF c = "illegal_double_solid_cross" /\ "SolidSolid" \in ToSet(markings)
               THEN 1 ELSE 0)
            + (IF c = "illegal_solid_cross" /\ "Solid" \in ToSet(markings)
               THEN 1 ELSE 0)
            + (IF c = "unjustified_dashed_cross" /\ "Broken" \in ToSet(markings)
               THEN 1 ELSE 0)]

\* _on_lane_violation without the test of last_turn_time
on_lane_violation_NoWindow(ltt, counts, now, markings) ==
    IF "SolidSolid" \in ToSet(markings)
    THEN [counts EXCEPT !["illegal_double_solid_cross"] = @ + 1]
    ELSE IF "Solid" \in ToSet(markings)
    THEN [counts EXCEPT !["illegal_solid_cross"] = @ + 1]
    ELSE IF "Broken" \in ToSet(markings)
    THEN [counts EXCEPT !["unjustified_dashed_cross"] = @ + 1]
    ELSE counts

\* _on_lane_violation that also returns while last_turn_time is still 0
on_lane_violation_UntilJunction(ltt, counts, now, markings) ==
    IF ltt = 0 \/ now - ltt < SuppressWindow
    THEN counts
    ELSE IF "SolidSolid" \in ToSet(markings)
    THEN [counts EXCEPT !["illegal_double_solid_cross"] = @ + 1]
    ELSE IF "Solid" \in ToSet(markings)
    THEN [counts EXCEPT !["illegal_solid_cross"] = @ + 1]
    ELSE IF "Broken" \in ToSet(markings)
    THEN [counts EXCEPT !["unjustified_dashed_cross"] = @ + 1]
    ELSE counts

\* _on_lane_violation with the test now - last_turn_time <= 5.0
on_lane_violation_Closed(ltt, counts, now, markings) ==
    IF now - ltt <= SuppressWindow
    THEN counts
    ELSE IF "SolidSolid" \in ToSet(markings)
    THEN [counts EXCEPT !["illegal_double_solid_cross"] = @ + 1]
    ELSE IF "Solid" \in ToSet(markings)
    THEN [counts EXCEPT !["illegal_solid_cross"] = @ + 1]
    ELSE IF "Broken" \in ToSet(markings)
    THEN [counts EXCEPT !["unjustified_dashed_cross"] = @ + 1]
    ELSE counts

\* _on_lane_violation (lines 130-143): self.violations after the callback,
\* markings being the list of m.type of event.crossed_lane_markings
on_lane_violation(ltt, counts, now, markings) ==
    IF now - ltt < SuppressWindow
    THEN counts
    ELSE IF "SolidSolid" \in ToSet(markings)
    THEN [counts EXCEPT !["illegal_double_solid_cross"] = @ + 1]
    ELSE IF "Solid" \in ToSet(markings)
    THEN [counts EXCEPT !["illegal_solid_cross"] = @ + 1]
    ELSE IF "Broken" \in ToSet(markings)
    THEN [counts EXCEPT !["unjustified_dashed_cross"] = @ + 1]
    ELSE counts

\* update_turn_status (lines 145-149): self.last_turn_time after the call
update_turn_status(ltt, is_junction, now) ==
    IF is_junction THEN now ELSE ltt

\* event.crossed_lane_markings, by type: one or several markings, in either
\* order, and markings of types the monitor does not name
Markings ==
    { <<"Solid", "Broken">>, <<"Broken", "Solid">>,
      <<"Broken", "SolidSolid">>, <<"SolidSolid", "Solid", "Broken">>,
      <<"SolidSolid">>, <<"Solid">>, <<"Broken">>,
      <<"SolidBroken">>, <<"NONE">> }

NoLaneEvent ==
    [at |-> 0, markings |-> <<>>, junctionSeen |-> FALSE, lastJunction |-> 0,
     before |-> [c \in LaneCounters |-> 0]]

\* A second passes
AdvanceTime ==
    /\ time < StartTime + MaxTime
    /\ time' = time + 1
    /\ UNCHANGED <<last_turn_time, lane_violations, laneHist>>
    /\ UNCHANGED <<masterVars, concVars, redVars, colVars, sessVars>>

\* The control loop calls self.lane.update_turn_status() (line 258)
JunctionTick ==
    /\ \E is_junction \in BOOLEAN :
          /\ last_turn_time' = update_turn_status(last_turn_time, is_junction, time)
          /\ laneHist' =
                IF is_junction
                THEN [laneHist EXCEPT !.junctionSeen = TRUE, !.lastJunction = time]
                ELSE laneHist
    /\ UNCHANGED <<lane_violations, time>>
    /\ UNCHANGED <<masterVars, concVars, redVars, colVars, sessVars>>

\* The lane-invasion sensor delivers an event: self._on_lane_violation(event)
OnLaneEvent ==
    /\ laneHist.events < MaxLaneEvents
    /\ \E markings \in Markings :
          /\ lane_violations' =
                on_lane_violation(last_turn_time, lane_violations, time, markings)
          /\ laneHist' =
                [laneHist EXCEPT
                   !.events = @ + 1,
                   !.ev = [at |-> time, markings |-> markings,
                           junctionSeen |-> laneHist.junctionSeen,
                           lastJunction |-> laneHist.lastJunction,
                           before |-> lane_violations]]
    /\ UNCHANGED <<last_turn_time, time>>
    /\ UNCHANGED <<masterVars, concVars, redVars, colVars, sessVars>>

InitLane ==
    /\ last_turn_time = 0
    /\ lane_violations = [c \in LaneCounters |-> 0]
    /\ time = StartTime
    /\ laneHist = [events |-> 0, junctionSeen |-> FALSE, lastJunction |-> 0,
                   ev |-> NoLaneEvent]
    /\ InitMaster /\ InitConcIdle /\ InitRedIdle
    /\ InitColIdle /\ InitSessIdle

NextLane == AdvanceTime \/ JunctionTick \/ OnLaneEvent

SpecLane == InitLane /\ [][NextLane]_vars

-----------------------------------------------------------------------------
(* TeamMonitor: a session from main() to the end of cleanup() *)

\* lines 230-233: the header of a team's history file
team_header ==
    << "illegal_double_solid_cross", "illegal_solid_cross", "unjustified_dashed_cross",
       "total_lane_violations", "static_collisions", "dynamic_collisions",
       "total_collisions", "redlight_StopWaypointPassed", "redlight_TriggerVolume",
       "total_redlight_violations", "timestamp" >>

\* _init_team_csv that opens the file for writing whether or not it exists
init_team_csv_Truncate(f) ==
    [exists |-> TRUE, header |-> team_header, rows |-> <<>>]

\* _init_team_csv (lines 226-234): the file after the call
init_team_csv(f) ==
    IF ~f.exists
    THEN [exists |-> TRUE, header |-> team_header, rows |-> <<>>]
    ELSE f

\* cleanup's locals with total_coll taken from the static count alone
Summary_StaticOnly(lv, static, dynamic, rv) ==
    [ds |-> lv["illegal_double_solid_cross"],
     s |-> lv["illegal_solid_cross"],
     d |-> lv["unjustified_dashed_cross"],
     total_lane |-> lv["illegal_double_solid_cross"] + lv["illegal_solid_cross"]
                      + lv["unjustified_dashed_cross"],
     static |-> static,
     dynamic |-> dynamic,
     total_coll |-> static,
     stop_v |-> rv["StopWaypointPassed"],
     trig_v |-> rv["TriggerVolume"],
     total_red |-> rv["StopWaypointPassed"] + rv["TriggerVolume"]]

\* cleanup, lines 270-279: the locals computed from the monitors' counters
Summary(lv, static, dynamic, rv) ==
    [ds |-> lv["illegal_double_solid_cross"],
     s |-> lv["illegal_solid_cross"],
     d |-> lv["unjustified_dashed_cross"],
     total_lane |-> lv["illegal_double_solid_cross"] + lv["illegal_solid_cross"]
                      + lv["unjustified_dashed_cross"],
     static |-> static,
     dynamic |-> dynamic,
     total_coll |-> static + dynamic,
     stop_v |-> rv["StopWaypointPassed"],
     trig_v |-> rv["TriggerVolume"],
     total_red |-> rv["StopWaypointPassed"] + rv["TriggerVolume"]]

\* cleanup, line 284: the row handed to csv.writer, as the text it writes
TeamRow(sm, ts) ==
    << str(sm.ds), str(sm.s), str(sm.d), str(sm.total_lane),
       str(sm.static), str(sm.dynamic), str(sm.total_coll),
       str(sm.stop_v), str(sm.trig_v), str(sm.total_red), ts >>

\* cleanup, lines 282-284: open(self.team_csv, "a") and one writerow
AppendRow(f, row) ==
    [exists |-> TRUE, header |-> f.header, rows |-> Append(f.rows, row)]

\* run with cleanup called from the except KeyboardInterrupt clause only
AfterException_OnlyInterrupt(exc) ==
    IF exc = "KeyboardInterrupt" THEN "cleanup" ELSE "done"

\* run, lines 264-267: where control goes when exc is raised inside the
\* try block; the finally clause runs cleanup whatever was raised
AfterException(exc) == "cleanup"

\* What the operator may type at the prompt
SessionTeams == { <<"a">>, <<"A", " ">>, <<"b">> }

TeamFiles == { TeamKey(MainName(typed)) : typed \in SessionTeams }

\* What the sensors and the simulator may deliver during a session, and
\* where vehicle.get_location() may find the vehicle
SessionMarkings == { <<"Solid", "Broken">>, <<"SolidSolid">> }

SessionActors == { <<"vehicle", "tesla", "model3">>, <<"static", "prop", "streetbarrier">> }

SessionLocs == { <<0, 0, 0>>, <<3, 0, 0>> }

SessionObservations ==
    { [tl |-> "None", state |-> "None", veh_loc |-> <<0, 0, 0>>, velocity |-> AtRest] }
    \cup [tl : TrafficLights, state : {"Red"},
          veh_loc : {<<2, 0, 0>>}, velocity : {<<10, 5, 0>>}]

LoopPositions == { "turn", "redlight", "prune", "alive" }

NoSnapshot == <<>>

\* The monitors' counters, all seven
Counters ==
    [lane |-> lane_violations, static |-> static_count,
     dynamic |-> dynamic_count, redlight |-> violations]

sessIdle == <<pc, sessions, hist, colHist, laneHist>>

\* main(), TeamMonitor.__init__ and run up to the try block (lines 212-254,
\* 294-302): the history file is created if missing, the monitors are built
\* (their fields as InitSession has them) and both sensors listen
StartSession ==
    /\ run.pc = "idle"
    /\ \E typed \in SessionTeams :
          LET team_name == TeamKey(MainName(typed)) IN
          /\ MainName(typed) # <<>>
          /\ team_csv' = [team_csv EXCEPT ![team_name] = init_team_csv(@)]
          /\ run' = [run EXCEPT
                       !.pc = "turn", !.team = team_name,
                       !.lane_sensor = "listening",
                       !.collision_sensor = "listening",
                       !.before = team_csv]
    /\ UNCHANGED <<laneVars, redVars, colVars, local, masterVars, sessIdle>>

\* line 258: self.lane.update_turn_status()
LoopTurn ==
    /\ run.pc = "turn"
    /\ \E is_junction \in BOOLEAN :
          last_turn_time' = update_turn_status(last_turn_time, is_junction, time)
    /\ run' = [run EXCEPT !.pc = "redlight"]
    /\ UNCHANGED <<lane_violations, time, redVars, colVars, team_csv, local,
                   masterVars, sessIdle>>

\* line 259: self.redlight.tick()
LoopRedLight ==
    /\ run.pc = "redlight"
    /\ \E o \in SessionObservations :
          LET after == tick(violation_logged, violations, o) IN
          /\ violation_logged' = after.violation_logged
          /\ violations' = after.violations
    /\ run' = [run EXCEPT !.pc = "prune"]
    /\ UNCHANGED <<obs, laneVars, colVars, team_csv, local, masterVars, sessIdle>>

\* line 260: self.collision._cleanup_zones(self.vehicle.get_location())
LoopPrune ==
    /\ run.pc = "prune"
    /\ \E loc \in SessionLocs : zones' = cleanup_zones(zones, loc)
    /\ run' = [run EXCEPT !.pc = "alive"]
    /\ UNCHANGED <<static_count, dynamic_count, ego_loc, laneVars, redVars,
                   team_csv, local, masterVars, sessIdle>>

\* lines 261-263: break when the vehicle is not among the world's actors,
\* else time.sleep(0.1), during which the clock may pass to the next second
LoopAlive ==
    /\ run.pc = "alive"
    /\ \E present \in BOOLEAN :
          IF present
          THEN /\ run.loops + 1 < MaxLoops
               /\ run' = [run EXCEPT !.pc = "turn", !.loops = @ + 1]
               /\ time' \in {time, time + 1}
          ELSE /\ run' = [run EXCEPT !.pc = "cleanup", !.cause = "removed"]
               /\ time' = time
    /\ UNCHANGED <<last_turn_time, lane_violations, redVars, colVars,
                   team_csv, local, masterVars, sessIdle>>

\* The operator presses Ctrl-C while the loop runs (lines 264-267)
Interrupt ==
    /\ run.pc \in LoopPositions
    /\ run' = [run EXCEPT !.pc = AfterException("KeyboardInterrupt"),
                          !.cause = "interrupt"]
    /\ UNCHANGED <<laneVars, redVars, colVars, team_csv, local, masterVars, sessIdle>>

\* A call to the simulator made by the loop raises (lines 258-261, 266-267)
PollError ==
    /\ run.pc \in LoopPositions
    /\ run' = [run EXCEPT !.pc = AfterException("RuntimeError"),
                          !.cause = "error"]
    /\ UNCHANGED <<laneVars, redVars, colVars, team_csv, local, masterVars, sessIdle>>

\* The lane-invasion sensor delivers an event while it listens
SessionLaneEvent ==
    /\ run.lane_sensor = "listening"
    /\ run.lane_events + run.collision_events < MaxSessEvents
    /\ \E markings \in SessionMarkings :
          lane_violations' =
              on_lane_violation(last_turn_time, lane_violations, time, markings)
    /\ run' = [run EXCEPT !.lane_events = @ + 1]
    /\ UNCHANGED <<last_turn_time, time, redVars, colVars,
                   team_csv, local, masterVars, sessIdle>>

\* The collision sensor delivers an event while it listens, the vehicle
\* being at loc
SessionCollision ==
    /\ run.collision_sensor = "listening"
    /\ run.lane_events + run.collision_events < MaxSessEvents
    /\ \E other \in SessionActors, loc \in SessionLocs :
          LET after == on_collision(zones, static_count, dynamic_count, loc, other)
          IN /\ zones' = after.zones
             /\ static_count' = after.static_count
             /\ dynamic_count' = after.dynamic_count
    /\ run' = [run EXCEPT !.collision_events = @ + 1]
    /\ UNCHANGED <<ego_loc, laneVars, redVars, team_csv, local, masterVars, sessIdle>>

\* cleanup, lines 270-284: the counters are read and the row is appended
CleanupWrite ==
    /\ run.pc = "cleanup"
    /\ LET sm == Summary(lane_violations, static_count, dynamic_count, violations)
       IN /\ team_csv' = [team_csv EXCEPT ![run.team] = AppendRow(@, TeamRow(sm, clock))]
          /\ local' = sm
    /\ run' = [run EXCEPT !.pc = "merge", !.atCleanup = Counters]
    /\ UNCHANGED <<laneVars, redVars, colVars, masterVars, sessIdle>>

\* cleanup, line 286: update_master_csv(self.team_name, total_lane, ...)
CleanupMerge ==
    /\ run.pc = "merge"
    /\ master' = update_master_csv(master, run.team, local.total_lane,
                                   local.total_coll, local.total_red, clock)
    /\ clock' = clock + 1
    /\ calls' = Append(calls, Call(run.team, <<local.total_lane, local.total_coll,
                                               local.total_red>>))
    /\ run' = [run EXCEPT !.pc = "destroy"]
    /\ UNCHANGED <<laneVars, redVars, colVars, team_csv, local, sessIdle>>

\* cleanup, lines 288-292: both sensors stopped and destroyed
CleanupDestroy ==
    /\ run.pc = "destroy"
    /\ run' = [run EXCEPT !.pc = "done",
                          !.lane_sensor = "destroyed",
                          !.collision_sensor = "destroyed"]
    /\ UNCHANGED <<laneVars, redVars, colVars, team_csv, local, masterVars, sessIdle>>

\* An earlier session of team "a": its counters, and the files it left
EarlierTeam == TeamKey(MainName(<<"a">>))

EarlierSummary ==
    Summary([c \in LaneCounters |-> IF c = "illegal_solid_cross" THEN 1 ELSE 0],
            1, 0,
            [t \in {"StopWaypointPassed", "TriggerVolume"} |->
                IF t = "StopWaypointPassed" THEN 1 ELSE 0])

EarlierCall ==
    Call(EarlierTeam, <<EarlierSummary.total_lane, EarlierSummary.total_coll,
                        EarlierSummary.total_red>>)

\* The monitors as their constructors leave them (lines 80-86, 117-122,
\* 157-160), and the files either absent or as one earlier session left
\* them
InitSession ==
    /\ \E earlier \in BOOLEAN :
          IF earlier
          THEN /\ team_csv =
                     [k \in TeamFiles |->
                        IF k = EarlierTeam
                        THEN AppendRow(init_team_csv(NoFile), TeamRow(EarlierSummary, 0))
                        ELSE NoFile]
               /\ master = update_master_csv(NoFile, EarlierTeam,
                                             EarlierSummary.total_lane,
                                             EarlierSummary.total_coll,
                                             EarlierSummary.total_red, 0)
               /\ clock = 1
               /\ calls = <<EarlierCall>>
          ELSE /\ team_csv = [k \in TeamFiles |-> NoFile]
               /\ InitMaster
    /\ pc = <<>>
    /\ sessions = <<>>
    /\ local = <<>>
    /\ violation_logged = FALSE
    /\ violations = [t \in {"StopWaypointPassed", "TriggerVolume"} |-> 0]
    /\ obs = <<>>
    /\ hist = <<>>
    /\ InitColIdle
    /\ last_turn_time = 0
    /\ lane_violations = [c \in LaneCounters |-> 0]
    /\ time = StartTime
    /\ laneHist = <<>>
    /\ run = [pc |-> "idle", team |-> <<>>,
              lane_sensor |-> "none", collision_sensor |-> "none",
              cause |-> "none", loops |-> 0,
              lane_events |-> 0, collision_events |-> 0,
              before |-> <<>>, atCleanup |-> NoSnapshot]

NextSession ==
    \/ StartSession
    \/ LoopTurn
    \/ LoopRedLight
    \/ LoopPrune
    \/ LoopAlive
    \/ Interrupt
    \/ PollError
    \/ SessionLaneEvent
    \/ SessionCollision
    \/ CleanupWrite
    \/ CleanupMerge
    \/ CleanupDestroy

SpecSession == InitSession /\ [][NextSession]_vars

-----------------------------------------------------------------------------
(* TeamMonitor.cleanup when a write to disk raises.  cleanup has no try     *)
(* block: an OSError raised by open() or by a write leaves cleanup at once, *)
(* then run's finally clause, run and main; the statements of cleanup that  *)
(* follow the failing one are not executed.                                 *)

\* What a failing update_master_csv may leave on disk: the file as it was
\* (open raised) or the file emptied by open(master_path, "w") (a write
\* raised, lines 74-77)
FailedMerge(f) == { f, Truncated }

\* cleanup, lines 270-282: the counters are read, then open(self.team_csv,
\* "a") raises
CleanupWriteFails ==
    /\ run.pc = "cleanup"
    /\ local' = Summary(lane_violations, static_count, dynamic_count, violations)
    /\ run' = [run EXCEPT !.pc = "failed", !.atCleanup = Counters]
    /\ UNCHANGED <<laneVars, redVars, colVars, team_csv, masterVars, sessIdle>>

\* cleanup, line 286: update_master_csv raises
CleanupMergeFails ==
    /\ run.pc = "merge"
    /\ master' \in FailedMerge(master)
    /\ run' = [run EXCEPT !.pc = "failed"]
    /\ UNCHANGED <<clock, calls, laneVars, redVars, colVars, team_csv, local, sessIdle>>

NextFlush ==
    \/ NextSession
    \/ CleanupWriteFails
    \/ CleanupMergeFails

SpecFlush == InitSession /\ [][NextFlush]_vars

-----------------------------------------------------------------------------
(* The leaderboard, merging into a table found on disk *)

\* Headers a table found on disk may have: the expected one, the same
\* columns in another order, one column short, one column more, one column
\* under another name
PermutedHeader ==
    <<fieldnames[2], fieldnames[1]>> \o SubSeq(fieldnames, 3, Len(fieldnames))

DriftHeaders ==
    { fieldnames,
      PermutedHeader,
      SubSeq(fieldnames, 1, Len(fieldnames) - 1),
      Append(fieldnames, "best_run"),
      <<"team_name">> \o Tail(fieldnames) }

\* The rows of the table found: one team's, keyed by column name as
\* csv.DictReader returns them
DriftRows == << NewRow(<<"b">>, 1, 1, 1, 0) >>

DriftTeams == { <<"a">>, <<"b">> }

\* update_master_csv called while the table found, or the one the last
\* merge wrote, is on disk
DriftMerge ==
    \E n \in DriftTeams, t \in SessionTotals : Merge(n, t)

InitDrift ==
    /\ \E h \in DriftHeaders :
          master = [exists |-> TRUE, header |-> h, rows |-> DriftRows]
    /\ clock = 0
    /\ calls = <<>>
    /\ InitConcIdle /\ InitRedIdle
    /\ InitColIdle /\ InitLaneIdle /\ InitSessIdle

NextDrift == DriftMerge

SpecDrift == InitDrift /\ [][NextDrift]_vars

-----------------------------------------------------------------------------
(* TeamMonitor.run: how the control loop ends *)

\* line 261 with the test never true
ShouldBreak_Never(present) == FALSE

\* line 261: self.vehicle.id not in {v.id for v in ...get_actors()...},
\* present telling whether the simulator still has the vehicle
ShouldBreak(present) == ~present

\* What a tick of this loop may poll: no light, or tl1 red with the vehicle
\* past the line at speed
LoopObservations ==
    { [tl |-> "None", state |-> "None", veh_loc |-> <<0, 0, 0>>, velocity |-> AtRest],
      [tl |-> "tl1", state |-> "Red", veh_loc |-> <<2, 0, 0>>, velocity |-> <<10, 5, 0>>] }

termRest == <<masterVars, concVars, obs, hist, static_count, dynamic_count,
              ego_loc, colHist, lane_violations, time, laneHist, team_csv>>

\* line 258
TermTurn ==
    /\ run.pc = "turn"
    /\ \E is_junction \in BOOLEAN :
          last_turn_time' = update_turn_status(last_turn_time, is_junction, time)
    /\ run' = [run EXCEPT !.pc = "redlight"]
    /\ UNCHANGED <<zones, violation_logged, violations, termRest>>

\* line 259; the simulator shows at most MaxTicks violations
TermRedLight ==
    /\ run.pc = "redlight"
    /\ \E o \in LoopObservations :
          LET after == tick(violation_logged, violations, o) IN
          /\ Total(after.violations) <= MaxTicks
          /\ violation_logged' = after.violation_logged
          /\ violations' = after.violations
    /\ run' = [run EXCEPT !.pc = "prune"]
    /\ UNCHANGED <<zones, last_turn_time, termRest>>

\* line 260
TermPrune ==
    /\ run.pc = "prune"
    /\ \E loc \in SessionLocs : zones' = cleanup_zones(zones, loc)
    /\ run' = [run EXCEPT !.pc = "alive"]
    /\ UNCHANGED <<last_turn_time, violation_logged, violations, termRest>>

\* lines 261-263: break, or sleep and go round again
TermAlive ==
    /\ run.pc = "alive"
    /\ run' = IF ShouldBreak(run.present)
              THEN [run EXCEPT !.pc = "cleanup", !.cause = "removed"]
              ELSE [run EXCEPT !.pc = "turn"]
    /\ UNCHANGED <<zones, last_turn_time, violation_logged, violations, termRest>>

\* lines 264-267: Ctrl-C while the loop runs
TermInterrupt ==
    /\ run.pc \in LoopPositions
    /\ run' = [run EXCEPT !.pc = AfterException("KeyboardInterrupt"),
                          !.cause = "interrupt"]
    /\ UNCHANGED <<zones, last_turn_time, violation_logged, violations, termRest>>

\* lines 258-261, 266-267: a call to the simulator raises
TermPollError ==
    /\ run.pc \in LoopPositions
    /\ run' = [run EXCEPT !.pc = AfterException("RuntimeError"),
                          !.cause = "error"]
    /\ UNCHANGED <<zones, last_turn_time, violation_logged, violations, termRest>>

\* The simulator removes the vehicle
TermVehicleRemoved ==
    /\ run.pc \in LoopPositions
    /\ run.present
    /\ run' = [run EXCEPT !.present = FALSE]
    /\ UNCHANGED <<zones, last_turn_time, violation_logged, violations, termRest>>

\* Someone wants the session stopped.  TeamMonitor has no method, flag or
\* signal for it (lines 211-292): run reads nothing that such a request
\* could set.
TermStopRequested ==
    /\ run.pc \in LoopPositions
    /\ ~run.stop_requested
    /\ run' = [run EXCEPT !.stop_requested = TRUE]
    /\ UNCHANGED <<zones, last_turn_time, violation_logged, violations, termRest>>

\* lines 266-292: cleanup() from the finally clause
TermCleanup ==
    /\ run.pc = "cleanup"
    /\ run' = [run EXCEPT !.pc = "done"]
    /\ UNCHANGED <<zones, last_turn_time, violation_logged, violations, termRest>>

InitTermination ==
    /\ InitMaster /\ InitConcIdle /\ InitColIdle
    /\ violation_logged = FALSE
    /\ violations = [t \in {"StopWaypointPassed", "TriggerVolume"} |-> 0]
    /\ obs = <<>>
    /\ hist = <<>>
    /\ last_turn_time = 0
    /\ lane_violations = <<>>
    /\ time = StartTime
    /\ laneHist = <<>>
    /\ team_csv = <<>>
    /\ run = [pc |-> "turn", present |-> TRUE, stop_requested |-> FALSE,
              cause |-> "none"]

NextTermination ==
    \/ TermTurn
    \/ TermRedLight
    \/ TermPrune
    \/ TermAlive
    \/ TermInterrupt
    \/ TermPollError
    \/ TermVehicleRemoved
    \/ TermStopRequested
    \/ TermCleanup

\* The loop's thread keeps running: each of its steps is taken when it is
\* the next one.  Nothing is assumed of the operator or the simulator.
SpecTermination ==
    /\ InitTermination
    /\ [][NextTermination]_vars
    /\ WF_vars(TermTurn)
    /\ WF_vars(TermRedLight)
    /\ WF_vars(TermPrune)
    /\ WF_vars(TermAlive)
    /\ WF_vars(TermCleanup)

-----------------------------------------------------------------------------
(* Properties of the leaderboard *)

Rows == master.rows

Current(r) ==
    <<int(r.current_lane), int(r.current_collision),
      int(r.current_redlight), int(r.current_total)>>

Lowest(r) ==
    <<int(r.lowest_lane), int(r.lowest_collision),
      int(r.lowest_redlight), int(r.lowest_total)>>

\* A team's key: its name trimmed and lower-cased
NormName(n) == Lower(Strip(n))

\* The rows of the team that `n` names
TeamRows(rows, n) ==
    {i \in 1..Len(rows) : NormName(rows[i].team_name) = NormName(n)}

FirstOf(S) == CHOOSE i \in S : \A k \in S : i <= k

LastCall == calls'[Len(calls')]

\* The totals (l, c, r, l+c+r) of a call
Totals(c) == <<c.lane, c.collision, c.redlight, c.lane + c.collision + c.redlight>>

\* C1: in every row of the leaderboard, each of lowest_lane,
\* lowest_collision, lowest_redlight and lowest_total is at most the
\* corresponding current value.
C1_LowestLeCurrent ==
    \A i \in 1..Len(Rows) : \A k \in 1..4 :
        Lowest(Rows[i])[k] <= Current(Rows[i])[k]

\* Some row has been merged into twice and holds a lowest value strictly
\* below its current one.
C1_Witness ==
    /\ Len(calls) >= 2
    /\ \E i \in 1..Len(Rows) : \E k \in 1..4 :
          Lowest(Rows[i])[k] < Current(Rows[i])[k]

\* C2: a merge keeps every row in place under its name and never raises
\* any of its four lowest values.
C2_LowestNonIncreasing ==
    [][\A i \in 1..Len(Rows) :
          /\ i <= Len(Rows')
          /\ Rows'[i].team_name = Rows[i].team_name
          /\ \A k \in 1..4 : Lowest(Rows'[i])[k] <= Lowest(Rows[i])[k]]_vars

\* A second merge for a row's team has lowered its lowest_lane below the
\* value its first merge stored.
C2_Witness ==
    /\ Len(calls) = 2
    /\ Len(Rows) = 1
    /\ calls[2].lane < calls[1].lane
    /\ int(Rows[1].lowest_lane) = calls[2].lane

\* C3: merging (l, c, r) for a team that already has a row sets that row's
\* current values to (l, c, r, l+c+r) and each lowest value to the minimum
\* of its previous value and the new one.
C3_UpdateExisting ==
    [][(calls' # calls /\ TeamRows(Rows, LastCall.team_name) # {}) =>
          LET i == FirstOf(TeamRows(Rows, LastCall.team_name))
              new == Totals(LastCall)
          IN /\ Len(Rows') = Len(Rows)
             /\ Current(Rows'[i]) = new
             /\ \A k \in 1..4 :
                   Lowest(Rows'[i])[k] = Min(Lowest(Rows[i])[k], new[k])]_vars

\* C4: merging (l, c, r) for a team that has no row appends exactly one
\* row, named as given, whose current and lowest values are both
\* (l, c, r, l+c+r); the rows already there stay as they were.
C4_CreateNew ==
    [][(calls' # calls /\ TeamRows(Rows, LastCall.team_name) = {}) =>
          /\ Len(Rows') = Len(Rows) + 1
          /\ SubSeq(Rows', 1, Len(Rows)) = Rows
          /\ Rows'[Len(Rows')].team_name = LastCall.team_name
          /\ Current(Rows'[Len(Rows')]) = Totals(LastCall)
          /\ Lowest(Rows'[Len(Rows')]) = Totals(LastCall)]_vars

\* Two different teams each got their row from their first merge.
C4_Witness ==
    /\ Len(calls) = 2
    /\ Len(Rows) = 2
    /\ NormName(Rows[1].team_name) # NormName(Rows[2].team_name)
    /\ Lowest(Rows[2]) = Totals(calls[2])

\* C5: after team "A" merges (3, 1, 0) and then (1, 2, 1) into an empty
\* leaderboard its row is current = (1, 2, 1, 4), lowest = (1, 1, 0, 4):
\* lowest_total is the minimum of the session totals, not the sum 2 of the
\* per-category minimums.
C5_AlphaScenario ==
    (calls = << Call(<<"A">>, <<3, 1, 0>>), Call(<<"A">>, <<1, 2, 1>>) >>) =>
        /\ Len(Rows) = 1
        /\ Current(Rows[1]) = <<1, 2, 1, 4>>
        /\ Lowest(Rows[1]) = <<1, 1, 0, 4>>

\* The two sessions of the scenario have been merged.
C5_Witness ==
    /\ calls = << Call(<<"A">>, <<3, 1, 0>>), Call(<<"A">>, <<1, 2, 1>>) >>
    /\ Len(Rows) = 1
    /\ int(Rows[1].lowest_total) = 4

\* Dashboard_v2.py, lines 130-134: the helper column the dashboard sorts by
total_lowest_violations(r) ==
    int(r.lowest_lane) + int(r.lowest_collision) + int(r.lowest_redlight)

\* C34: in every row of the leaderboard, after any sequence of merges,
\* lowest_total is at least lowest_lane + lowest_collision +
\* lowest_redlight, and current_total = current_lane + current_collision +
\* current_redlight.
C34_TotalsConsistent ==
    \A i \in 1..Len(Rows) :
        /\ int(Rows[i].lowest_total) >= total_lowest_violations(Rows[i])
        /\ int(Rows[i].current_total) =
              int(Rows[i].current_lane) + int(Rows[i].current_collision)
                + int(Rows[i].current_redlight)

\* After three merges a row's lowest_total (3) is above the sum (1) of its
\* per-category minimums
C34_Witness ==
    /\ Len(calls) = 3
    /\ \E i \in 1..Len(Rows) :
          /\ int(Rows[i].lowest_total) = 3
          /\ total_lowest_violations(Rows[i]) = 1
          /\ int(Rows[i].current_total) = 4

\* C6: the leaderboard never holds two rows whose trimmed, lower-cased
\* team names are equal (names that differ only in case or surrounding
\* whitespace are merged into one row).
C6_OneRowPerTeam ==
    \A i, j \in 1..Len(Rows) :
        NormName(Rows[i].team_name) = NormName(Rows[j].team_name) => i = j

\* The element-wise minimum of the totals of a non-empty sequence of calls
RECURSIVE MinTotals(_)
MinTotals(cs) ==
    IF Len(cs) = 1 THEN Totals(cs[1])
    ELSE LET m == MinTotals(SubSeq(cs, 1, Len(cs) - 1))
             t == Totals(cs[Len(cs)])
         IN [k \in 1..4 |-> Min(m[k], t[k])]

\* C7: whenever no merge is in progress, each of the two teams that has
\* completed a merge has its row in the table, holding its latest totals
\* as current and the minimum over its merges as lowest: no row or update
\* is lost to the other session's write.
C7_NoLostUpdate ==
    (\A p \in Procs : pc[p] = "idle") =>
        \A p \in Procs : sessions[p] > 0 =>
            \E i \in 1..Len(Rows) :
                /\ Rows[i].team_name = ProcTeam[p]
                /\ Current(Rows[i]) = Totals(local[p].merged[Len(local[p].merged)])
                /\ Lowest(Rows[i]) = MinTotals(local[p].merged)

\* The calls made for the team that `n` names, in their order
TeamCalls(n) == SelectSeq(calls, LAMBDA c : NormName(c.team_name) = NormName(n))

\* C35: after any sequence of merges, for every team merged so far, the
\* team's lowest_lane, lowest_collision and lowest_redlight are the minimums
\* of that category over all of the team's merged sessions and its
\* lowest_total is the minimum of the session totals, whatever the order
\* of the sessions.
C35_LowestIsMinimum ==
    \A k \in 1..Len(calls) :
        LET n == calls[k].team_name IN
        /\ TeamRows(Rows, n) # {}
        /\ \A i \in TeamRows(Rows, n) : Lowest(Rows[i]) = MinTotals(TeamCalls(n))

-----------------------------------------------------------------------------
(* Properties of the red-light monitor *)

\* C8: over a run of consecutive ticks on which the violation condition
\* holds, the red-light counters have risen by exactly one in total, from
\* the first tick of the run on, and the monitor is in state Logged.
C8_OncePerRun ==
    hist.runLen >= 1 => (hist.runIncr = 1 /\ violation_logged)

\* A run of three ticks has been counted once.
C8_Witness ==
    hist.runLen >= 3 /\ hist.runIncr = 1

\* C9 as stated: within one continuous red-light dwell (consecutive ticks
\* under the same red light) at most one violation is counted.
C9_OncePerDwell ==
    hist.dwellLen >= 1 => hist.dwellIncr <= 1

\* C9 as amended: within one continuous red-light dwell at most one
\* violation is counted per maximal run of ticks on which the violation
\* condition holds; a tick of the dwell on which it lapses (speed at most
\* 1.0 m/s, or the vehicle back before the line) re-arms the count.
C9_OncePerRunInDwell ==
    hist.dwellLen >= 1 => hist.dwellIncr <= hist.dwellRuns

\* One dwell in which the condition lapsed and came back was counted twice.
C9_Witness ==
    hist.dwellLen >= 3 /\ hist.dwellRuns = 2 /\ hist.dwellIncr = 2

\* C10 as stated: a vehicle at rest past the stop line under a red light
\* has been counted exactly once (anywhere in that red-light dwell, the
\* ticks before it came to rest included).
C10_StationaryCountedOnce ==
    hist.stillLen >= 1 => hist.dwellIncr = 1

\* C10 as amended: while the vehicle is at rest past the stop line under a
\* red light the counter is not incremented at all and the monitor stays
\* Idle, however many ticks fall in the interval: a violation needs a
\* speed above 1.0 m/s.
C10_StationaryNotCounted ==
    hist.stillLen >= 1 => (hist.stillIncr = 0 /\ ~violation_logged)

\* Three ticks at rest past the line under red, nothing counted.
C10_Witness ==
    hist.stillLen >= 3 /\ hist.stillIncr = 0 /\ Total(violations) = 0

\* No traffic light influences the vehicle, or the light is not red
NotRed(o) == o.tl = "None" \/ o.state # "Red"

\* C11: a tick that finds no influencing light, or a light that is not
\* red, leaves the monitor Idle and changes no counter; and the tick after
\* such a tick, if it finds the violation condition holding, increments
\* the counters by one (a second, separate dwell is counted again).
C11_ResetThenRecount ==
    [][(hist'.ticks # hist.ticks) =>
          /\ NotRed(obs') => (~violation_logged' /\ violations' = violations)
          /\ (NotRed(obs) /\ ViolationCondition(obs')) =>
                Total(violations') = Total(violations) + 1]_vars

\* After a counted dwell and a tick without red light, a second dwell has
\* just been counted.
C11_Witness ==
    /\ hist.afterReset
    /\ hist.counted = 1
    /\ Total(violations) = 2

\* On this map: the speed is above 1.0 m/s; the vehicle is past tl1's stop
\* line (dot > 0); the vehicle is inside tl2's trigger box
Faster(o) ==
    o.velocity[1] * o.velocity[1] + o.velocity[2] * o.velocity[2]
      + o.velocity[3] * o.velocity[3] > 100

PastLine(o) == o.veh_loc[1] > 0

InsideBox(o) ==
    /\ 2 <= o.veh_loc[1] /\ o.veh_loc[1] <= 8
    /\ -1 <= o.veh_loc[2] /\ o.veh_loc[2] <= 1
    /\ -1 <= o.veh_loc[3] /\ o.veh_loc[3] <= 1

\* C28: on a tick under a red light with a stop waypoint (tl1) a violation
\* holds exactly when dot > 0 and speed > 1.0, its counter is
\* StopWaypointPassed, and TriggerVolume never changes, wherever the
\* vehicle is with respect to the light's trigger volume; under a red light
\* without stop waypoint (tl2) a violation holds exactly when the vehicle
\* is inside the trigger box and speed > 1.0, and its counter is
\* TriggerVolume.  The counter rises by one when the violation holds and
\* none was logged, and not otherwise.
C28_StopLineThenTriggerVolume ==
    [][ (hist'.ticks # hist.ticks /\ ~NotRed(obs')) =>
          LET o == obs'
              holds == IF o.tl = "tl1"
                       THEN PastLine(o) /\ Faster(o)
                       ELSE InsideBox(o) /\ Faster(o)
              type == IF o.tl = "tl1" THEN "StopWaypointPassed" ELSE "TriggerVolume"
              n == IF holds /\ ~violation_logged THEN 1 ELSE 0
          IN /\ violation_logged' = holds
             /\ \A t \in DOMAIN violations :
                   violations'[t] = violations[t] + (IF t = type THEN n ELSE 0)
      ]_vars

\* A violation of each type has been counted, the last by the trigger
\* volume of the light without stop waypoint
C28_Witness ==
    /\ obs.tl = "tl2"
    /\ hist.counted = 1
    /\ violations["TriggerVolume"] = 1
    /\ violations["StopWaypointPassed"] = 1

\* C29: a tick under a red light on which no violation condition holds
\* leaves the monitor Idle whatever it was before; and when the next tick
\* under the same red light finds the condition holding, the counters rise
\* by one again.
C29_RearmUnderRed ==
    [][ (hist'.ticks # hist.ticks) =>
          /\ (~NotRed(obs') /\ ~ViolationCondition(obs')) => ~violation_logged'
          /\ (/\ hist.ticks > 0
              /\ ~NotRed(obs) /\ ~ViolationCondition(obs)
              /\ obs'.tl = obs.tl /\ ViolationCondition(obs'))
                => Total(violations') = Total(violations) + 1
      ]_vars

\* Three ticks under tl2's red light: counted, lapsed, counted again
C29_Witness ==
    /\ obs.tl = "tl2"
    /\ hist.dwellLen = 3
    /\ hist.counted = 1
    /\ violations["TriggerVolume"] = 2

\* The rows of type t the standalone script has written
Written(t) == Len(SelectSeq(local.rows, LAMBDA r : r = t))

\* C36: fed the same polls, the standalone loop and RedLightMonitor.tick
\* have the same logged flag after every tick, and the script writes a row
\* on exactly the ticks on which the monitor counts, with the type of the
\* counter that rises.
C36_SameMachine ==
    /\ [](local.violation_logged = violation_logged)
    /\ [][ hist'.ticks # hist.ticks =>
              \A t \in {"StopWaypointPassed", "TriggerVolume"} :
                  /\ violations'[t] - violations[t] \in {0, 1}
                  /\ violations'[t] = violations[t] + 1
                        <=> local'.rows = Append(local.rows, t)
                  /\ Total(violations') = Total(violations)
                        => local'.rows = local.rows
          ]_vars

\* Both have recorded a stop-line violation, then, after a tick that
\* re-armed them, a trigger-volume violation, and are logged
C36_Witness ==
    /\ local.rows = <<"StopWaypointPassed", "TriggerVolume">>
    /\ violations["StopWaypointPassed"] = 1
    /\ violations["TriggerVolume"] = 1
    /\ violation_logged /\ local.violation_logged

-----------------------------------------------------------------------------
(* Properties of the collision monitor *)

\* The last two collision events came at locations less than ZONE_RADIUS
\* apart with no control-loop prune between them
TwoNearEvents ==
    /\ colHist.events >= 2
    /\ Nearer(colHist.e1.loc, colHist.e2.loc)
    /\ ~colHist.pruneBetween

\* C12 as stated: over two collision events less than ZONE_RADIUS apart
\* with no prune between them, static_count + dynamic_count rises by
\* exactly one.
C12_ExactlyOnePerPair ==
    TwoNearEvents => Collisions = colHist.e1.before + 1

\* C12 as amended: over two such events at most one incident is counted,
\* and if the first of them is counted (no earlier zone absorbed it) the
\* second is absorbed, so that exactly one is counted.
C12_AtMostOnePerPair ==
    TwoNearEvents =>
        /\ Collisions <= colHist.e1.before + 1
        /\ (colHist.e2.before = colHist.e1.before + 1) => Collisions = colHist.e2.before

\* Two events at different places less than ZONE_RADIUS apart: the first
\* counted, the second absorbed.
C12_Witness ==
    /\ TwoNearEvents
    /\ colHist.e1.loc # colHist.e2.loc
    /\ colHist.e2.before = colHist.e1.before + 1
    /\ Collisions = colHist.e2.before

\* C13: after a collision was counted at p and a prune tick ran with the
\* vehicle more than ZONE_RADIUS away from p, the next collision event,
\* delivered with the vehicle back at p, is counted as a new incident.
C13_ZoneReactivation ==
    colHist.lastReturn => colHist.lastCounted

\* The same place has been counted twice.
C13_Witness ==
    colHist.lastReturn /\ colHist.lastCounted /\ Collisions = 2

\* The step is the delivery of a collision event / a prune of the loop
EventStep == colHist'.events = colHist.events + 1

PruneStep == colHist'.events = colHist.events /\ ego_loc' = ego_loc

\* The vehicle is less than ZONE_RADIUS (2-D) from some zone on record
NearSomeZone == \E i \in 1..Len(zones) : Nearer(ego_loc, zones[i])

\* The type tag counts as a moving actor's
DynamicTag(type_id) ==
    "vehicle" \in ToSet(type_id) \/ "walker" \in ToSet(type_id)

\* C23: a collision event that is not absorbed adds one to dynamic_count
\* and nothing to static_count when the other actor's type tag contains
\* "vehicle" or "walker", adds one to static_count and nothing to
\* dynamic_count otherwise, and records a zone at the vehicle's location.
C23_Classification ==
    [][ (EventStep /\ ~NearSomeZone) =>
          /\ IF DynamicTag(colHist'.lastOther)
             THEN dynamic_count' = dynamic_count + 1 /\ static_count' = static_count
             ELSE static_count' = static_count + 1 /\ dynamic_count' = dynamic_count
          /\ zones' # <<>>
          /\ zones'[Len(zones')] = ego_loc
      ]_vars

\* C24: a collision event changes neither count exactly when the vehicle's
\* 2-D distance to some zone on record is less than ZONE_RADIUS (so an
\* event exactly ZONE_RADIUS from every zone is counted, and a zone
\* directly above or below absorbs).
C24_AbsorbedIffNear ==
    [][ EventStep =>
          ((static_count' = static_count /\ dynamic_count' = dynamic_count)
              <=> NearSomeZone)
      ]_vars

\* Two events exactly ZONE_RADIUS apart, both counted
C24_Witness ==
    /\ colHist.events = 2
    /\ colHist.e1.loc = <<0, 0, 0>>
    /\ colHist.e2.loc = <<2, 0, 0>>
    /\ ~colHist.pruneBetween
    /\ Collisions = 2

\* C25: an absorbed collision event leaves static_count and dynamic_count
\* as they were and puts no zone on record that was not there.
C25_AbsorbedFrame ==
    [][ (EventStep /\ NearSomeZone) =>
          /\ static_count' = static_count
          /\ dynamic_count' = dynamic_count
          /\ Len(zones') <= Len(zones)
          /\ \A j \in 1..Len(zones') : \E i \in 1..Len(zones) : zones'[j] = zones[i]
      ]_vars

\* Three events, the last two absorbed by the zone of the first
C25_Witness ==
    /\ colHist.events = 3
    /\ ~colHist.lastCounted
    /\ Collisions = 1
    /\ Len(zones) = 1

\* C26 as stated: a prune removes exactly the zones farther than
\* ZONE_RADIUS (2-D) from the vehicle, keeps the others, one exactly
\* ZONE_RADIUS away included, and changes no count.
C26_KeepsBoundary ==
    [][ PruneStep =>
          /\ zones' = SelectSeq(zones, LAMBDA z : ~Farther(ego_loc, z))
          /\ static_count' = static_count
          /\ dynamic_count' = dynamic_count
      ]_vars

\* C26, amended: a prune keeps exactly the zones nearer than ZONE_RADIUS
\* (2-D) to the vehicle, in their order, removes the others, one exactly
\* ZONE_RADIUS away included, and changes no count.
C26_DropsBoundary ==
    [][ PruneStep =>
          /\ zones' = SelectSeq(zones, LAMBDA z : Nearer(ego_loc, z))
          /\ static_count' = static_count
          /\ dynamic_count' = dynamic_count
      ]_vars

\* The zone of the one counted collision is gone after prunes no farther
\* than ZONE_RADIUS from it, the vehicle being exactly ZONE_RADIUS away
C26_Witness ==
    /\ colHist.events = 1
    /\ colHist.lastCounted
    /\ colHist.prunedSince
    /\ colHist.armStage = 1
    /\ zones = <<>>
    /\ ~Nearer(ego_loc, colHist.armLoc) /\ ~Farther(ego_loc, colHist.armLoc)

\* C33: with callbacks and prunes executed one at a time the zone list
\* never holds more than one zone; a collision event is counted exactly
\* when no zone is left after the prune at the vehicle's location, and the
\* zone list is then the single zone at that location; otherwise the list
\* is what the prune left.
C33_AtMostOneZone ==
    /\ [](Len(zones) <= 1)
    /\ [][ EventStep =>
              LET kept == SelectSeq(zones, LAMBDA z : Nearer(ego_loc, z)) IN
              IF kept = <<>>
              THEN /\ Collisions' = Collisions + 1
                   /\ zones' = <<ego_loc>>
              ELSE /\ Collisions' = Collisions
                   /\ zones' = kept
          ]_vars

\* Two counted collisions more than ZONE_RADIUS apart: the zone of the
\* second is the only one on record
C33_Witness ==
    /\ colHist.events = 2
    /\ Collisions = 2
    /\ colHist.lastCounted
    /\ Farther(colHist.e1.loc, colHist.e2.loc)
    /\ zones = <<ego_loc>>

\* C30: a merge for team T into a table with the expected header leaves
\* every row in its position under its name, leaves the rows of the other
\* teams unchanged in all ten fields, and adds at most one row, at the end
\* and for T.
C30_OthersUntouched ==
    [][ (Len(calls') = Len(calls) + 1 /\ master.exists /\ master.header = fieldnames) =>
          LET T == LastCall.team_name
              old == master.rows
              new == master'.rows
          IN /\ Len(new) \in {Len(old), Len(old) + 1}
             /\ \A i \in 1..Len(old) :
                   /\ new[i].team_name = old[i].team_name
                   /\ NormName(old[i].team_name) # NormName(T) => new[i] = old[i]
             /\ Len(new) = Len(old) + 1 => new[Len(new)].team_name = T
      ]_vars

\* The third merge updated the first of two teams' rows; the second row
\* still carries the time of the merge that created it
C30_Witness ==
    /\ Len(calls) = 3
    /\ Len(Rows) = 2
    /\ NormName(Rows[1].team_name) # NormName(Rows[2].team_name)
    /\ calls[3].team_name = Rows[1].team_name
    /\ Rows[1].date_time = 2
    /\ Rows[2].date_time = 1

\* C22: with the callback thread and the control loop interleaved, the zone
\* of a counted collision is never lost to a prune, so that a vehicle that
\* stays nearer than ZONE_RADIUS to the place of its first counted
\* collision has every later collision event absorbed: the counts never
\* pass one.
C22_ZoneNeverLost ==
    (\A a \in RaceLocs : \A b \in RaceLocs : Nearer(a, b)) =>
        static_count + dynamic_count <= 1

-----------------------------------------------------------------------------
(* Properties of the lane monitor *)

\* What the last lane event added to counter c
LaneDelta(c) == lane_violations[c] - laneHist.ev.before[c]

\* The seconds between the last junction tick before the last lane event
\* and that event
SinceJunction == laneHist.ev.at - laneHist.ev.lastJunction

\* The counter of the most severe marking type among ms, or "none"
MostSevere(ms) ==
    IF "SolidSolid" \in ms THEN "illegal_double_solid_cross"
    ELSE IF "Solid" \in ms THEN "illegal_solid_cross"
    ELSE IF "Broken" \in ms THEN "unjustified_dashed_cross"
    ELSE "none"

\* C14: a lane event increments at most one lane counter, by one, and only
\* the counter of the most severe marking it reports (double-solid > solid
\* > broken); an event not preceded by a junction tick within 5 s does
\* increment that counter.  An event reporting {Solid, Broken} adds to
\* illegal_solid_cross alone.
C14_SeverityPriority ==
    laneHist.events > 0 =>
        LET top == MostSevere(ToSet(laneHist.ev.markings)) IN
        /\ \A c \in LaneCounters : c # top => LaneDelta(c) = 0
        /\ \A c \in LaneCounters : LaneDelta(c) \in {0, 1}
        /\ (~laneHist.ev.junctionSeen \/ SinceJunction >= 5) =>
              \A c \in LaneCounters : c = top => LaneDelta(c) = 1

C14_Witness ==
    /\ laneHist.events > 0
    /\ ToSet(laneHist.ev.markings) = {"Solid", "Broken"}
    /\ LaneDelta("illegal_solid_cross") = 1
    /\ LaneDelta("unjustified_dashed_cross") = 0

\* C15 as stated: a lane event at t changes no lane counter if a junction
\* tick occurred in [t-5, t], and increments some lane counter otherwise.
C15_ClosedWindow ==
    laneHist.events > 0 =>
        IF laneHist.ev.junctionSeen /\ SinceJunction <= 5
        THEN \A c \in LaneCounters : LaneDelta(c) = 0
        ELSE \E c \in LaneCounters : LaneDelta(c) > 0

\* C15, amended: a lane event at t changes no lane counter if a junction
\* tick occurred less than 5 s before it, i.e. in (t-5, t]; otherwise it
\* increments a lane counter exactly when it reports a SolidSolid, Solid or
\* Broken marking.
C15_HalfOpenWindow ==
    laneHist.events > 0 =>
        IF laneHist.ev.junctionSeen /\ SinceJunction < 5
        THEN \A c \in LaneCounters : LaneDelta(c) = 0
        ELSE (\E c \in LaneCounters : LaneDelta(c) > 0)
               <=> ToSet(laneHist.ev.markings)
                     \cap {"SolidSolid", "Solid", "Broken"} # {}

\* A Solid crossing exactly 5 s after the last junction tick, counted
C15_Witness ==
    /\ laneHist.events > 0
    /\ laneHist.ev.junctionSeen
    /\ SinceJunction = 5
    /\ laneHist.ev.markings = <<"Solid">>
    /\ LaneDelta("illegal_solid_cross") = 1

\* C27: a lane event delivered at time now changes no lane counter when
\* now - lastJunctionTime < 5 s; when the difference is 5 s or more it adds
\* one to the counter of the most severe of the double-solid, solid and
\* broken markings it reports, and changes no counter if it reports none
\* of them.
C27_SuppressedIffRecent ==
    [][ (laneHist'.events = laneHist.events + 1) =>
          LET top == MostSevere(ToSet(laneHist'.ev.markings)) IN
          IF time - last_turn_time < 5
          THEN lane_violations' = lane_violations
          ELSE \A c \in LaneCounters :
                  lane_violations'[c] = lane_violations[c] + (IF c = top THEN 1 ELSE 0)
      ]_vars

\* A Solid crossing 4 s after the last junction tick, not counted
C27_Witness ==
    /\ laneHist.events > 0
    /\ laneHist.ev.junctionSeen
    /\ SinceJunction = 4
    /\ laneHist.ev.markings = <<"Solid">>
    /\ \A c \in LaneCounters : LaneDelta(c) = 0

\* C37: while last_turn_time still has its initial value 0 (no junction
\* tick has found the vehicle in a junction yet), no lane event is
\* suppressed: an event that reports a double-solid, solid or broken
\* marking adds one to the counter of the most severe of them.
C37_NothingSuppressedAtStart ==
    [][ (laneHist'.events = laneHist.events + 1 /\ last_turn_time = 0) =>
          LET ms == ToSet(laneHist'.ev.markings)
              top == MostSevere(ms)
          IN /\ ~laneHist.junctionSeen
             /\ ms \cap {"SolidSolid", "Solid", "Broken"} # {} =>
                   /\ top \in LaneCounters
                   /\ lane_violations'[top] = lane_violations[top] + 1
      ]_vars

\* A dashed crossing at the very start of a session, counted
C37_Witness ==
    /\ laneHist.events = 1
    /\ last_turn_time = 0
    /\ ~laneHist.ev.junctionSeen
    /\ laneHist.ev.at = StartTime
    /\ laneHist.ev.markings = <<"Broken">>
    /\ lane_violations["unjustified_dashed_cross"] = 1

-----------------------------------------------------------------------------
(* Properties of a session *)

RedLightCounters == {"StopWaypointPassed", "TriggerVolume"}

\* The session has appended its row to the team's history file
RowWritten == run.pc \in {"merge", "destroy", "done"}

\* The history file of the session's team and its last row
History == team_csv[run.team]

LastRow == History.rows[Len(History.rows)]

\* C16: in every step of a session no violation counter decreases; the lane
\* counters change only in a step of the lane callback, the collision
\* counts only in a step of the collision callback, the red-light counters
\* only in a step of the red-light tick; the junction tick, the prune and
\* the three steps of cleanup change none of them.
C16_OwnerOnly ==
    [][ /\ \A c \in LaneCounters : lane_violations'[c] >= lane_violations[c]
        /\ static_count' >= static_count
        /\ dynamic_count' >= dynamic_count
        /\ \A t \in RedLightCounters : violations'[t] >= violations[t]
        /\ lane_violations' # lane_violations
              => run'.lane_events = run.lane_events + 1
        /\ <<static_count', dynamic_count'>> # <<static_count, dynamic_count>>
              => run'.collision_events = run.collision_events + 1
        /\ violations' # violations
              => run.pc = "redlight" /\ run'.pc = "prune"
        /\ (run.pc \in {"turn", "prune", "cleanup", "merge", "destroy"}
              /\ run'.pc # run.pc)
              => /\ lane_violations' = lane_violations
                 /\ static_count' = static_count
                 /\ dynamic_count' = dynamic_count
                 /\ violations' = violations
      ]_vars

\* A finished session in which each detector has counted
C16_Witness ==
    /\ run.pc = "done"
    /\ \E c \in LaneCounters : lane_violations[c] > 0
    /\ static_count + dynamic_count > 0
    /\ \E t \in RedLightCounters : violations[t] > 0

\* C17: the row written at session end holds the seven counters as they
\* were when cleanup read them, total_lane_violations = double-solid +
\* solid + dashed, total_collisions = static + dynamic, and
\* total_redlight_violations = StopWaypointPassed + TriggerVolume; the
\* merge into the leaderboard is called with these three totals and leaves
\* them as the team's current values.
C17_SummaryRow ==
    RowWritten =>
        LET r == LastRow
            k == run.atCleanup
        IN
        /\ int(r[1]) = k.lane["illegal_double_solid_cross"]
        /\ int(r[2]) = k.lane["illegal_solid_cross"]
        /\ int(r[3]) = k.lane["unjustified_dashed_cross"]
        /\ int(r[5]) = k.static
        /\ int(r[6]) = k.dynamic
        /\ int(r[8]) = k.redlight["StopWaypointPassed"]
        /\ int(r[9]) = k.redlight["TriggerVolume"]
        /\ int(r[4]) = int(r[1]) + int(r[2]) + int(r[3])
        /\ int(r[7]) = int(r[5]) + int(r[6])
        /\ int(r[10]) = int(r[8]) + int(r[9])
        /\ run.pc \in {"destroy", "done"} =>
              /\ calls[Len(calls)] =
                    Call(run.team, <<int(r[4]), int(r[7]), int(r[10])>>)
              /\ \E i \in 1..Len(Rows) :
                    /\ Rows[i].team_name = run.team
                    /\ Current(Rows[i]) =
                          <<int(r[4]), int(r[7]), int(r[10]),
                            int(r[4]) + int(r[7]) + int(r[10])>>

\* A merged summary with a lane violation, a collision with a vehicle and
\* a red-light violation
C17_Witness ==
    /\ run.pc = "done"
    /\ int(LastRow[4]) > 0
    /\ int(LastRow[6]) > 0
    /\ int(LastRow[10]) > 0
    /\ Len(calls) > 0

\* C18: a session leaves every other team's history file as it was; its
\* own team's file exists from the start of the session on, under the fixed
\* header (the header it had, if it existed), with the rows it had before
\* the session, in their order, and from the end of the session on with
\* exactly one more row after them.
C18_AppendOnly ==
    run.pc # "idle" =>
        \A k \in TeamFiles :
            LET b == run.before[k]
                f == team_csv[k]
            IN
            IF k # run.team
            THEN f = b
            ELSE /\ f.exists
                 /\ f.header = team_header
                 /\ b.exists => f.header = b.header
                 /\ IF RowWritten
                    THEN /\ Len(f.rows) = Len(b.rows) + 1
                         /\ SubSeq(f.rows, 1, Len(b.rows)) = b.rows
                    ELSE f.rows = b.rows

\* A team's second session has ended: two rows, the first as it was
C18_Witness ==
    /\ run.pc = "done"
    /\ run.before[run.team].exists
    /\ Len(History.rows) = 2
    /\ History.rows[1] = run.before[run.team].rows[1]

\* The ten numeric cells of a history row, for counters k
TeamRowCells(k) ==
    LET ds == k.lane["illegal_double_solid_cross"]
        sl == k.lane["illegal_solid_cross"]
        d == k.lane["unjustified_dashed_cross"]
        sw == k.redlight["StopWaypointPassed"]
        tv == k.redlight["TriggerVolume"]
    IN << str(ds), str(sl), str(d), str(ds + sl + d),
          str(k.static), str(k.dynamic), str(k.static + k.dynamic),
          str(sw), str(tv), str(sw + tv) >>

\* C19: once the vehicle is found gone, the operator interrupts or a poll
\* raises, the session is in cleanup or over; and when it is over, for one
\* of these three reasons, both sensors are destroyed and the history file
\* has one more row, holding the counters as cleanup found them.
C19_TeardownTotal ==
    /\ run.cause # "none" => run.pc \in {"cleanup", "merge", "destroy", "done"}
    /\ run.pc = "done" =>
          /\ run.cause \in {"removed", "interrupt", "error"}
          /\ run.lane_sensor = "destroyed"
          /\ run.collision_sensor = "destroyed"
          /\ Len(History.rows) = Len(run.before[run.team].rows) + 1
          /\ SubSeq(LastRow, 1, 10) =
                TeamRowCells(run.atCleanup)

\* A session ended by an error of a poll, after a counted violation
C19_Witness ==
    /\ run.pc = "done"
    /\ run.cause = "error"
    /\ run.lane_sensor = "destroyed"
    /\ run.collision_sensor = "destroyed"
    /\ int(LastRow[4]) + int(LastRow[7]) + int(LastRow[10]) > 0

\* C31: once cleanup has read the counters for the summary no callback
\* increments a counter, so that the row written at session end holds the
\* detectors' final counters.
C31_RowHoldsFinalCounters ==
    RowWritten =>
        /\ Counters = run.atCleanup
        /\ SubSeq(LastRow, 1, 10) = TeamRowCells(Counters)

\* C32: in the step in which a write of cleanup fails (the append of the
\* history row or the rewrite of the leaderboard), the detectors' counters,
\* the zone list and the logged flag are unchanged, and after it the lane
\* and the collision sensor are stopped and destroyed.
C32_FailedFlushStillDestroys ==
    [][ (run.pc # "failed" /\ run'.pc = "failed") =>
            /\ Counters' = Counters
            /\ zones' = zones
            /\ violation_logged' = violation_logged
            /\ run'.lane_sensor = "destroyed"
            /\ run'.collision_sensor = "destroyed"
      ]_vars

-----------------------------------------------------------------------------
(* Properties of a merge into a table found on disk *)

\* The table holds one row, the one a merge creates for the team and the
\* totals of call c
OnlyNewRow(f, c) ==
    /\ Len(f.rows) = 1
    /\ f.rows[1].team_name = c.team_name
    /\ Current(f.rows[1]) = Totals(c)
    /\ Lowest(f.rows[1]) = Totals(c)

\* C20 as stated: a merge that finds a table whose header is not the ten
\* expected column names in the expected order leaves a table holding only
\* the merging team's newly created row.
C20_ExactHeader ==
    [][ (master.exists /\ master.header # fieldnames)
           => OnlyNewRow(master', LastCall) ]_vars

\* C20, amended: a merge that finds a table whose header is not the set of
\* the ten expected column names leaves a table holding only the merging
\* team's newly created row; a table whose header lists the ten names in
\* another order is read as usual, and none of its rows is discarded.
C20_SameColumns ==
    [][ /\ (master.exists /\ ToSet(master.header) # ToSet(fieldnames))
           => OnlyNewRow(master', LastCall)
        /\ (master.exists /\ ToSet(master.header) = ToSet(fieldnames))
           => /\ Len(master'.rows) >= Len(master.rows)
              /\ \A i \in 1..Len(master.rows) :
                    master'.rows[i].team_name = master.rows[i].team_name
      ]_vars

\* The first merge, of team "a", found a table with a foreign header and
\* the row of team "b", and left one row, team "a"'s
C20_Witness ==
    /\ Len(calls) = 1
    /\ calls[1].team_name = <<"a">>
    /\ Len(Rows) = 1
    /\ Rows[1].team_name = <<"a">>

-----------------------------------------------------------------------------
(* Properties of the end of the control loop *)

\* C21 as stated: once the vehicle is gone the loop exits and cleanup
\* runs, and once a stop is requested the loop exits; the loop is left only
\* because the vehicle is gone, an interrupt arrived or a stop was
\* requested.
C21_ExitsOnStopToo ==
    /\ (~run.present) ~> (run.pc = "done")
    /\ run.stop_requested ~> (run.pc \notin LoopPositions)

\* C21, amended: once the vehicle is gone the loop exits and cleanup runs;
\* the loop is left only because the vehicle was found gone, an interrupt
\* arrived or a poll raised, and then cleanup runs.
C21_ExitsOnRemoval ==
    /\ (~run.present) ~> (run.pc = "done")
    /\ [](run.pc \notin LoopPositions
            => run.cause \in {"removed", "interrupt", "error"})
    /\ (run.cause # "none") ~> (run.pc = "done")

\* The loop found the vehicle gone and cleanup has run
C21_Witness ==
    /\ run.pc = "done"
    /\ run.cause = "removed"
    /\ ~run.present

====
